---- MODULE Spec2Model ----
(***************************************************************************)
(* Market Data Aggregation Layer of stock-portfolio-genius:                *)
(*   - the providers and their rate-limit counters (market_data/base.py,   *)
(*     yahoo.py, finnhub.py, tiingo.py, alphavantage.py),                  *)
(*   - the fallback/caching MarketDataManager (market_data/manager.py),    *)
(*   - the PriceCollector background scheduler (price_collector.py).       *)
(*                                                                         *)
(* The program runs on one asyncio event loop: a coroutine runs without    *)
(* interruption until it awaits something that really suspends (an httpx   *)
(* request, asyncio.sleep, another task).  Every action below is one such  *)
(* uninterrupted run.  The yfinance calls of the Yahoo provider are        *)
(* synchronous, so a Yahoo call never suspends.                            *)
(*                                                                         *)
(* Strings that the code transforms (tickers, cache keys) are sequences of *)
(* one-character strings, so that upper() and startswith() are computed.   *)
(* Time is the wall clock in seconds; the host is taken to run in UTC, so  *)
(* datetime.now() and datetime.utcnow() read the same clock.               *)
(***************************************************************************)
EXTENDS Integers, Sequences, FiniteSets, TLC

VARIABLES
    now,               \* wall clock, seconds
    providers,         \* MarketDataManager.providers: sequence of provider names
    prov,              \* provider name -> the provider object's fields
    quote_cache,       \* MarketDataManager._quote_cache: key -> CacheEntry
    info_cache,        \* MarketDataManager._info_cache
    historical_cache,  \* MarketDataManager._historical_cache
    calls,             \* caller -> frame of its Manager get_quote/get_info/get_historical coroutine
    direct,            \* caller -> frame of a provider operation invoked directly on a provider
    batches,           \* caller -> frame of its Manager get_multiple_quotes coroutine
    ops,               \* number of operations started so far (bounds the exploration)
    is_running,        \* PriceCollector.is_running
    task_ref,          \* PriceCollector._task: index into tasks, 0 for None
    tasks,             \* the scheduler tasks created so far
    stops,             \* caller -> frame of its PriceCollector.stop() coroutine
    manual,            \* caller -> frame of a collect_prices()/collect_single() coroutine run outside the scheduler
    holdings,          \* Holding rows: ticker -> quantity
    price_history,     \* PriceHistory rows
    save_log,          \* per (ticker, date): the _save_price invocations so far, as
                       \* their number, their callers, the last price and the
                       \* extreme high and low
    history            \* caller -> frame of its PriceCollector.get_history call

mgrVars  == <<providers, prov, quote_cache, info_cache, historical_cache, calls>>
colVars  == <<is_running, task_ref, tasks, stops, manual, holdings, price_history,
              save_log, history>>
vars     == <<now, providers, prov, quote_cache, info_cache, historical_cache, calls,
              direct, batches, ops, is_running, task_ref, tasks, stops, manual, holdings,
              price_history, save_log, history>>

-----------------------------------------------------------------------------
(* Bounds of the exploration *)

MaxTime     == 60    \* clock horizon of Spec
MaxRateTime == 450   \* clock horizon of SpecRate
TickStep    == 30    \* seconds by which the clock advances in Spec and SpecRate
MaxOps      == 2     \* operations started in one behaviour of Spec
MaxColTime  == 3720  \* clock horizon of SpecCol
MaxColOps   == 2     \* tasks created plus manual collections started in one
                     \* behaviour of SpecCol

None == "None"

-----------------------------------------------------------------------------
(* Strings *)

UpperChar(ch) ==
    CASE ch = "a" -> "A"
      [] ch = "b" -> "B"
      [] OTHER    -> ch

\* str.upper()
Upper(s) == [i \in 1..Len(s) |-> UpperChar(s[i])]

\* str.startswith(prefix)
StartsWith(s, prefix) ==
    /\ Len(prefix) <= Len(s)
    /\ SubSeq(s, 1, Len(prefix)) = prefix

\* tickers as the callers write them
RawTickers == { <<"a">>, <<"A">>, <<"A", "B">> }
Periods    == { <<"1", "y">> }
Intervals  == { <<"1", "d">> }

\* a cache key that leaves the period out
HistoricalKeyNoPeriod(ticker, period, interval) ==
    ticker \o <<"_">> \o interval

\* f"{ticker}_{period}_{interval}"
HistoricalKey(ticker, period, interval) ==
    ticker \o <<"_">> \o period \o <<"_">> \o interval

-----------------------------------------------------------------------------
(* Providers: class attributes *)

Registration == <<"yahoo", "finnhub", "tiingo", "alphavantage">>
ProviderNames == { Registration[i] : i \in 1..Len(Registration) }

priority(p) ==
    CASE p = "yahoo"        -> 1
      [] p = "finnhub"      -> 2
      [] p = "tiingo"       -> 3
      [] p = "alphavantage" -> 4

FinnhubRateLimit       == 60
AlphaVantageRateLimit  == 5
AlphaVantageDailyLimit == 25
TiingoDailyLimit       == 1000

\* a limit of None is 0 here: the code tests limits by truthiness, which
\* treats None and 0 alike
rate_limit(p) ==
    CASE p = "finnhub"      -> FinnhubRateLimit
      [] p = "alphavantage" -> AlphaVantageRateLimit
      [] OTHER              -> 0

daily_limit(p) ==
    CASE p = "tiingo"       -> TiingoDailyLimit
      [] p = "alphavantage" -> AlphaVantageDailyLimit
      [] OTHER              -> 0

SecondsPerMinute == 60
SecondsPerDay    == 86400

\* datetime.date()
Date(t) == t \div SecondsPerDay

\* MarketDataProvider.__init__ followed by the subclass __init__
NewProvider(p, hasKey, t) ==
    [ api_key             |-> hasKey,
      request_count       |-> 0,
      daily_request_count |-> 0,
      last_reset          |-> t,
      last_error          |-> None,
      is_available        |-> IF p = "yahoo" THEN TRUE ELSE hasKey ]

\* _check_rate_limit that lets one request too many through
CheckRateLimitOffByOne(p, ps, t) ==
    LET r1 == IF t - ps.last_reset > SecondsPerMinute
              THEN [ps EXCEPT !.request_count = 0, !.last_reset = t]
              ELSE ps
        r2 == IF Date(t) > Date(r1.last_reset)
              THEN [r1 EXCEPT !.daily_request_count = 0]
              ELSE r1
        ok == /\ ~(rate_limit(p) # 0 /\ r2.request_count > rate_limit(p))
              /\ ~(daily_limit(p) # 0 /\ r2.daily_request_count >= daily_limit(p))
    IN  [ps |-> r2, ok |-> ok]

\* MarketDataProvider._check_rate_limit: the provider's fields after the call
\* and the value returned
CheckRateLimit(p, ps, t) ==
    LET r1 == IF t - ps.last_reset > SecondsPerMinute
              THEN [ps EXCEPT !.request_count = 0, !.last_reset = t]
              ELSE ps
        r2 == IF Date(t) > Date(r1.last_reset)
              THEN [r1 EXCEPT !.daily_request_count = 0]
              ELSE r1
        ok == /\ ~(rate_limit(p) # 0 /\ r2.request_count >= rate_limit(p))
              /\ ~(daily_limit(p) # 0 /\ r2.daily_request_count >= daily_limit(p))
    IN  [ps |-> r2, ok |-> ok]

\* MarketDataProvider._increment_request
IncrementRequest(ps) ==
    [ps EXCEPT !.request_count = @ + 1, !.daily_request_count = @ + 1]

-----------------------------------------------------------------------------
(* Values.  An Optional[X] is a sequence of length at most one: <<>> is    *)
(* None, <<x>> is x; a list result (historical bars) is the sequence       *)
(* itself.  Either way the value is truthy exactly when it is not <<>>.    *)

Absent  == <<>>
Some(x) == <<x>>

\* what a vendor can answer to a request: a payload, an empty payload, or a
\* failure (HTTP error status, transport error, malformed body)
QuotePayloads ==
    { [c |-> 11, pc |-> 10, o |-> 10, h |-> 12, l |-> 9,  v |-> 500],
      [c |-> 12, pc |-> 10, o |-> 10, h |-> 13, l |-> 10, v |-> 0] }
InfoPayloads == { [name |-> "Acme", sector |-> "Tech"] }
BarPayloads  == { << [timestamp |-> 0, open |-> 10, high |-> 12, low |-> 9,
                      close |-> 11, volume |-> 500] >> }

Payloads(op) ==
    CASE op = "quote"      -> { Some(d) : d \in QuotePayloads }
      [] op = "info"       -> { Some(d) : d \in InfoPayloads }
      [] op = "historical" -> BarPayloads

Responses(op) ==
    { [kind |-> "error", data |-> Absent], [kind |-> "empty", data |-> Absent] }
        \cup { [kind |-> "ok", data |-> d] : d \in Payloads(op) }

PercentOf(change, base) == IF base # 0 THEN (change * 100) \div base ELSE 0

\* the StockQuote each provider's get_quote builds from the vendor payload d;
\* Finnhub's quote endpoint carries no volume
StockQuote(p, ticker, d, t) ==
    [ ticker         |-> Upper(ticker),
      current_price  |-> d.c,
      previous_close |-> d.pc,
      open_price     |-> d.o,
      high           |-> d.h,
      low            |-> d.l,
      volume         |-> IF p = "finnhub" THEN 0 ELSE d.v,
      change         |-> d.c - d.pc,
      change_percent |-> PercentOf(d.c - d.pc, d.pc),
      timestamp      |-> t,
      source         |-> p ]

\* the StockInfo a provider's get_info builds (name and sector stand for the
\* descriptive fields, which no operation inspects)
StockInfo(p, ticker, d) ==
    [ ticker |-> Upper(ticker), name |-> d.name, sector |-> d.sector ]

\* the value a provider operation returns for a vendor payload
BuildResult(p, op, ticker, data, t) ==
    CASE op = "quote"      -> Some(StockQuote(p, ticker, data[1], t))
      [] op = "info"       -> Some(StockInfo(p, ticker, data[1]))
      [] op = "historical" -> data

-----------------------------------------------------------------------------
(* One provider operation (get_quote, get_info, get_historical have the    *)
(* same shape in every provider): the part before the request is sent, and *)
(* the part that handles the vendor's answer.                              *)

\* a provider operation that records a refused call as a failure
ProviderStartRecording(p, ps, t) ==
    IF p = "yahoo" THEN [ps |-> ps, go |-> TRUE]
    ELSE IF ~ps.api_key THEN [ps |-> ps, go |-> FALSE]
    ELSE LET r == CheckRateLimit(p, ps, t)
         IN  [ps |-> IF r.ok THEN r.ps ELSE [r.ps EXCEPT !.last_error = "error"],
              go |-> r.ok]

\* "if not self.api_key or not self._check_rate_limit(): return None"
\* go is TRUE when the request is sent
ProviderStart(p, ps, t) ==
    IF p = "yahoo" THEN [ps |-> ps, go |-> TRUE]
    ELSE IF ~ps.api_key THEN [ps |-> ps, go |-> FALSE]
    ELSE LET r == CheckRateLimit(p, ps, t) IN [ps |-> r.ps, go |-> r.ok]

\* a try block whose error handler takes the provider out of service
ProviderFinishDisabling(p, ps, op, ticker, resp, t) ==
    CASE resp.kind = "error" ->
            [ps |-> [ps EXCEPT !.last_error = "error", !.is_available = FALSE],
             result |-> Absent]
      [] resp.kind = "empty" ->
            [ps |-> ps, result |-> Absent]
      [] resp.kind = "ok" ->
            [ps     |-> IF p = "yahoo" THEN ps ELSE IncrementRequest(ps),
             result |-> BuildResult(p, op, ticker, resp.data, t)]

\* the body of the try block once the vendor has answered with resp
ProviderFinish(p, ps, op, ticker, resp, t) ==
    CASE resp.kind = "error" ->
            [ps |-> [ps EXCEPT !.last_error = "error"], result |-> Absent]
      [] resp.kind = "empty" ->
            [ps |-> ps, result |-> Absent]
      [] resp.kind = "ok" ->
            [ps     |-> IF p = "yahoo" THEN ps ELSE IncrementRequest(ps),
             result |-> BuildResult(p, op, ticker, resp.data, t)]

-----------------------------------------------------------------------------
(* MarketDataManager *)

QUOTE_CACHE_TTL      == 60
INFO_CACHE_TTL       == 3600
HISTORICAL_CACHE_TTL == 300

TTL(op) ==
    CASE op = "quote"      -> QUOTE_CACHE_TTL
      [] op = "info"       -> INFO_CACHE_TTL
      [] op = "historical" -> HISTORICAL_CACHE_TTL

\* list.sort(key=...), which is stable: insertion after the last element
\* whose key is not greater
RECURSIVE InsertByKey(_, _, _)
InsertByKey(sorted, x, key) ==
    IF sorted = <<>> THEN <<x>>
    ELSE IF key[sorted[Len(sorted)]] <= key[x] THEN Append(sorted, x)
    ELSE Append(InsertByKey(SubSeq(sorted, 1, Len(sorted) - 1), x, key),
                sorted[Len(sorted)])

RECURSIVE StableSort(_, _)
StableSort(seq, key) ==
    IF seq = <<>> THEN <<>>
    ELSE InsertByKey(StableSort(SubSeq(seq, 1, Len(seq) - 1), key), seq[Len(seq)], key)

PriorityKey == [p \in ProviderNames |-> priority(p)]

\* the realtime key with its two values swapped
RealtimeKeySwapped == [p \in ProviderNames |-> IF p # "yahoo" THEN 1 ELSE 0]

\* key=lambda p: 0 if p.name != "yahoo" else 1
RealtimeKey == [p \in ProviderNames |-> IF p # "yahoo" THEN 0 ELSE 1]

\* dict.get(key)
DictGet(d, k) == IF k \in DOMAIN d THEN Some(d[k]) ELSE Absent

\* d[key] = value
DictPut(d, k, v) == [x \in DOMAIN d \cup {k} |-> IF x = k THEN v ELSE d[x]]

\* d.pop(key, None) for every key of ks
DictDrop(d, ks) == [x \in DOMAIN d \ ks |-> d[x]]

\* _is_cache_valid that still serves an entry whose age is the TTL
IsCacheValidInclusive(entry, ttl, t) ==
    IF entry = Absent THEN FALSE
    ELSE t - entry[1].timestamp <= ttl

\* _is_cache_valid with the comparison turned round
IsCacheValidInverted(entry, ttl, t) ==
    IF entry = Absent THEN FALSE
    ELSE t - entry[1].timestamp > ttl

\* MarketDataManager._is_cache_valid
IsCacheValid(entry, ttl, t) ==
    IF entry = Absent THEN FALSE
    ELSE t - entry[1].timestamp < ttl

\* the caches, the providers and the running coroutine's frame, as one
\* uninterrupted run of the coroutine transforms them
MgrState(c) ==
    [ prov |-> prov, qc |-> quote_cache, ic |-> info_cache,
      hc |-> historical_cache, call |-> calls[c] ]

IdleCall ==
    [ id |-> 0, pc |-> "idle", op |-> "quote", ticker |-> <<>>, key |-> <<>>,
      period |-> <<>>, interval |-> <<>>, prefer |-> FALSE, order |-> <<>>,
      idx |-> 0, called |-> <<>>, warned |-> <<>>, hit |-> FALSE, result |-> Absent ]

CacheOf(S, op) ==
    CASE op = "quote" -> S.qc [] op = "info" -> S.ic [] op = "historical" -> S.hc

\* CacheStore that records the first provider of the list as the source
CacheStoreFirstSource(S, op, key, value, p, t) ==
    LET entry == [ data      |-> IF op = "historical" THEN value ELSE value[1],
                   timestamp |-> t,
                   source    |-> S.call.order[1] ]
    IN  CASE op = "quote"      -> [S EXCEPT !.qc = DictPut(@, key, entry)]
          [] op = "info"       -> [S EXCEPT !.ic = DictPut(@, key, entry)]
          [] op = "historical" -> [S EXCEPT !.hc = DictPut(@, key, entry)]

\* a CacheStore that keeps the entry a key already has
CacheStoreKeepingFirst(S, op, key, value, p, t) ==
    LET entry == [ data      |-> IF op = "historical" THEN value ELSE value[1],
                   timestamp |-> t,
                   source    |-> p ]
        put(d) == IF key \in DOMAIN d THEN d ELSE DictPut(d, key, entry)
    IN  CASE op = "quote"      -> [S EXCEPT !.qc = put(@)]
          [] op = "info"       -> [S EXCEPT !.ic = put(@)]
          [] op = "historical" -> [S EXCEPT !.hc = put(@)]

\* self._<op>_cache[cache_key] = CacheEntry(data, timestamp=utcnow(), source=provider.name)
CacheStore(S, op, key, value, p, t) ==
    LET entry == [ data      |-> IF op = "historical" THEN value ELSE value[1],
                   timestamp |-> t,
                   source    |-> p ]
    IN  CASE op = "quote"      -> [S EXCEPT !.qc = DictPut(@, key, entry)]
          [] op = "info"       -> [S EXCEPT !.ic = DictPut(@, key, entry)]
          [] op = "historical" -> [S EXCEPT !.hc = DictPut(@, key, entry)]

\* the value a cache hit returns
CacheHitValue(op, entry) == IF op = "historical" THEN entry.data ELSE Some(entry.data)

(* The "for provider in providers" loop of get_quote / get_info /          *)
(* get_historical, run from the frame's position until the coroutine       *)
(* suspends on a vendor request (pc = "net") or returns (pc = "done").     *)
(* y is what Yahoo answers if it is asked during this run.  An answer of   *)
(* kind "raise" is an exception that leaves the provider operation; the    *)
(* providers of this repository catch every Exception themselves, so only  *)
(* a provider replaced by another implementation produces it.              *)
RECURSIVE Iterate(_, _, _)
RECURSIVE OnProviderResult(_, _, _, _, _)
RECURSIVE OnProviderRaise(_, _, _)

\* the loop, but a total failure also evicts the key's cache entry
IterateEvicting(S, y, t) ==
    LET c == S.call IN
    IF c.idx > Len(c.order)
    THEN [S EXCEPT !.call.pc = "done", !.call.result = Absent,
                   !.qc = DictDrop(@, {c.key})]
    ELSE LET p == c.order[c.idx] IN
         IF ~S.prov[p].is_available
         THEN Iterate([S EXCEPT !.call.idx = @ + 1], y, t)
         ELSE LET S1 == [S EXCEPT !.call.called = Append(@, p)]
                  st == ProviderStart(p, S1.prov[p], t)
              IN  IF p = "yahoo"
                  THEN IF y.kind = "raise"
                       THEN OnProviderRaise(S1, y, t)
                       ELSE OnProviderResult(S1, p,
                               ProviderFinish(p, S1.prov[p], c.op, c.ticker, y, t), y, t)
                  ELSE IF st.go
                  THEN [S1 EXCEPT !.prov[p] = st.ps, !.call.pc = "net"]
                  ELSE OnProviderResult(S1, p, [ps |-> st.ps, result |-> Absent], y, t)

\* the loop without the is_available test
IterateCallingAll(S, y, t) ==
    LET c == S.call IN
    IF c.idx > Len(c.order)
    THEN [S EXCEPT !.call.pc = "done", !.call.result = Absent]
    ELSE LET p == c.order[c.idx]
             S1 == [S EXCEPT !.call.called = Append(@, p)]
             st == ProviderStart(p, S1.prov[p], t)
         IN  IF p = "yahoo"
             THEN IF y.kind = "raise"
                  THEN OnProviderRaise(S1, y, t)
                  ELSE OnProviderResult(S1, p,
                          ProviderFinish(p, S1.prov[p], c.op, c.ticker, y, t), y, t)
             ELSE IF st.go
             THEN [S1 EXCEPT !.prov[p] = st.ps, !.call.pc = "net"]
             ELSE OnProviderResult(S1, p, [ps |-> st.ps, result |-> Absent], y, t)

Iterate(S, y, t) ==
    LET c == S.call IN
    IF c.idx > Len(c.order)
    THEN [S EXCEPT !.call.pc = "done", !.call.result = Absent]
    ELSE LET p == c.order[c.idx] IN
         IF ~S.prov[p].is_available
         THEN Iterate([S EXCEPT !.call.idx = @ + 1], y, t)
         ELSE LET S1 == [S EXCEPT !.call.called = Append(@, p)]
                  st == ProviderStart(p, S1.prov[p], t)
              IN  IF p = "yahoo"
                  THEN IF y.kind = "raise"
                       THEN OnProviderRaise(S1, y, t)
                       ELSE OnProviderResult(S1, p,
                               ProviderFinish(p, S1.prov[p], c.op, c.ticker, y, t), y, t)
                  ELSE IF st.go
                  THEN [S1 EXCEPT !.prov[p] = st.ps, !.call.pc = "net"]
                  ELSE OnProviderResult(S1, p, [ps |-> st.ps, result |-> Absent], y, t)

\* "if quote: cache it and return it", else the loop goes on
OnProviderResult(S, p, fin, y, t) ==
    LET S2 == [S EXCEPT !.prov[p] = fin.ps] IN
    IF fin.result # Absent
    THEN [CacheStore(S2, S.call.op, S.call.key, fin.result, p, t)
            EXCEPT !.call.pc = "done", !.call.result = fin.result]
    ELSE Iterate([S2 EXCEPT !.call.idx = @ + 1], y, t)

\* an exception of a provider that is let through to the caller of the
\* Manager operation
OnProviderRaisePropagating(S, y, t) ==
    [S EXCEPT !.call.pc = "raised", !.call.result = Absent]

\* "except Exception as e: logger.warning(...); continue"
OnProviderRaise(S, y, t) ==
    Iterate([S EXCEPT !.call.warned = Append(@, S.call.order[S.call.idx]),
                      !.call.idx = @ + 1], y, t)

\* a StartCall that reads the cache whatever prefer_realtime is
StartCallCached(S, op, key, ticker, period, interval, prefer, y, t) ==
    LET frame == [IdleCall EXCEPT !.op = op, !.ticker = ticker, !.key = key,
                                  !.period = period, !.interval = interval,
                                  !.prefer = prefer, !.idx = 1]
        entry == DictGet(CacheOf(S, op), key)
    IN  IF IsCacheValid(entry, TTL(op), t)
        THEN [S EXCEPT !.call = [frame EXCEPT !.pc = "done", !.hit = TRUE,
                                              !.result = CacheHitValue(op, entry[1])]]
        ELSE Iterate([S EXCEPT !.call =
                        [frame EXCEPT !.order = IF prefer
                                                THEN StableSort(providers, RealtimeKey)
                                                ELSE providers]],
                     y, t)

\* the run of a Manager read operation from its first line
StartCall(S, op, key, ticker, period, interval, prefer, y, t) ==
    LET frame == [IdleCall EXCEPT !.op = op, !.ticker = ticker, !.key = key,
                                  !.period = period, !.interval = interval,
                                  !.prefer = prefer, !.idx = 1]
        entry == DictGet(CacheOf(S, op), key)
    IN  IF ~prefer /\ IsCacheValid(entry, TTL(op), t)
        THEN [S EXCEPT !.call = [frame EXCEPT !.pc = "done", !.hit = TRUE,
                                              !.result = CacheHitValue(op, entry[1])]]
        ELSE Iterate([S EXCEPT !.call =
                        [frame EXCEPT !.order = IF prefer
                                                THEN StableSort(providers, RealtimeKey)
                                                ELSE providers]],
                     y, t)

\* the run that follows the vendor's answer resp to the pending request
ResumeCall(S, resp, y, t) ==
    LET c == S.call
        p == c.order[c.idx]
    IN  IF resp.kind = "raise"
        THEN OnProviderRaise(S, y, t)
        ELSE OnProviderResult(S, p,
                ProviderFinish(p, S.prov[p], c.op, c.ticker, resp, t), y, t)

\* get_quote with the ticker as given for its cache key
MgrGetQuoteRawKey(S, raw, prefer, y, t) ==
    StartCall(S, "quote", raw, Upper(raw), <<>>, <<>>, prefer, y, t)

\* MarketDataManager.get_quote
MgrGetQuote(S, raw, prefer, y, t) ==
    StartCall(S, "quote", Upper(raw), Upper(raw), <<>>, <<>>, prefer, y, t)

\* get_info with the realtime handling of get_quote
MgrGetInfoRealtime(S, raw, y, t) ==
    StartCall(S, "info", Upper(raw), Upper(raw), <<>>, <<>>, TRUE, y, t)

\* MarketDataManager.get_info
MgrGetInfo(S, raw, y, t) ==
    StartCall(S, "info", Upper(raw), Upper(raw), <<>>, <<>>, FALSE, y, t)

\* MarketDataManager.get_historical
MgrGetHistorical(S, raw, period, interval, y, t) ==
    StartCall(S, "historical", HistoricalKey(Upper(raw), period, interval),
              Upper(raw), period, interval, FALSE, y, t)

\* a clear_cache that forgets the info cache
MgrClearCacheQuoteOnly(S, arg) ==
    IF arg # Absent /\ arg[1] # <<>>
    THEN LET ticker == Upper(arg[1]) IN
         [S EXCEPT !.qc = DictDrop(@, {ticker}),
                   !.hc = DictDrop(@, { k \in DOMAIN @ : StartsWith(k, ticker) })]
    ELSE [S EXCEPT !.qc = <<>>, !.hc = <<>>]

\* MarketDataManager.clear_cache; arg is Absent for clear_cache(None)
MgrClearCache(S, arg) ==
    IF arg # Absent /\ arg[1] # <<>>
    THEN LET ticker == Upper(arg[1]) IN
         [S EXCEPT !.qc = DictDrop(@, {ticker}),
                   !.ic = DictDrop(@, {ticker}),
                   !.hc = DictDrop(@, { k \in DOMAIN @ : StartsWith(k, ticker) })]
    ELSE [S EXCEPT !.qc = <<>>, !.ic = <<>>, !.hc = <<>>]

-----------------------------------------------------------------------------
(* Initial state: the state after get_market_data_manager(...) and         *)
(* PriceCollector() have run.  The API keys come from the settings; a      *)
(* vendor's key may be absent.                                             *)

KeyedProviders == ProviderNames \ {"yahoo"}
Callers        == {"c1"}
DirectCallers  == {"d1"}

\* seq alternates between 0 and 1 from one invocation to the next
IdleDirect ==
    [ seq |-> 0, pc |-> "idle", p |-> "yahoo", op |-> "quote", ticker |-> <<>>,
      sent |-> FALSE, result |-> Absent ]

BatchCallers == {"b1"}

\* the frame of get_multiple_quotes: its argument, the number of get_quote
\* tasks of the gather that have begun to run, and the mapping returned
IdleBatch ==
    [ pc |-> "idle", tickers |-> <<>>, started |-> 0, result |-> <<>> ]

\* the API-key settings explored
KeyConfigs == { {}, {"tiingo"}, {"finnhub", "alphavantage"} }

InitManagerFor(keys, callers) ==
    /\ providers = StableSort(Registration, PriorityKey)
    /\ prov = [p \in ProviderNames |-> NewProvider(p, p \in keys, now)]
    /\ quote_cache = <<>>
    /\ info_cache = <<>>
    /\ historical_cache = <<>>
    /\ calls = [c \in callers |-> IdleCall]
    /\ direct = [d \in DirectCallers |-> IdleDirect]
    /\ batches = [b \in BatchCallers |-> IdleBatch]
    /\ ops = 0

InitManager(keys) == InitManagerFor(keys, Callers)

StopCallers   == {"s1"}
ManualCallers == {"m1"}

\* the frame of a collect_prices() / collect_single() coroutine; asked lists
\* the tickers get_quote has been awaited for so far
IdlePass ==
    [ pst |-> "idle", kind |-> "collect_prices", tickers |-> <<>>, i |-> 0,
      call |-> IdleCall, asked |-> <<>>, ret |-> FALSE ]

IdleStop == [ pc |-> "idle", task |-> 0, found |-> "none" ]

\* the frame of a get_history(ticker, days) call made at time at
HistoryCallers == {"h1"}
IdleHistory == [ pc |-> "idle", ticker |-> <<>>, days |-> 0, at |-> 0, result |-> <<>> ]

\* the API keys and Holding rows explored: no key and no holding, no key and
\* two held tickers, a Finnhub key and one held ticker beside a sold-out one
ColConfigs ==
    { [ keys |-> {}, rows |-> <<>> ],
      [ keys |-> {},
        rows |-> << [ticker |-> <<"a">>, quantity |-> 5],
                    [ticker |-> <<"A", "B">>, quantity |-> 3] >> ],
      [ keys |-> {"finnhub"},
        rows |-> << [ticker |-> <<"a">>, quantity |-> 5],
                    [ticker |-> <<"A", "B">>, quantity |-> 0] >> ] }

\* PriceCollector.__init__, and the tables as init_db() leaves them
InitCollectorFull(rows, table) ==
    /\ is_running = FALSE
    /\ task_ref = 0
    /\ tasks = <<>>
    /\ stops = [s \in StopCallers |-> IdleStop]
    /\ manual = [m \in ManualCallers |-> IdlePass]
    /\ holdings = rows
    /\ price_history = table
    /\ save_log = <<>>
    /\ history = [h \in HistoryCallers |-> IdleHistory]

\* the price history is empty when the database is created
InitCollectorWith(rows) == InitCollectorFull(rows, {})

InitCollector == InitCollectorWith(<<>>)

Init ==
    /\ now = 0
    /\ \E keys \in KeyConfigs : InitManager(keys)
    /\ InitCollector

-----------------------------------------------------------------------------
(* Actions of the Manager's clients *)

\* the write-back of a run that sorted self.providers itself
CommitSortedInPlace(c, S) ==
    /\ prov' = S.prov
    /\ quote_cache' = S.qc
    /\ info_cache' = S.ic
    /\ historical_cache' = S.hc
    /\ calls' = [calls EXCEPT ![c] = S.call]
    /\ providers' = IF S.call.order # <<>> THEN S.call.order ELSE providers

\* the manager's state after a run is written back
Commit(c, S) ==
    /\ prov' = S.prov
    /\ quote_cache' = S.qc
    /\ info_cache' = S.ic
    /\ historical_cache' = S.hc
    /\ calls' = [calls EXCEPT ![c] = S.call]
    /\ providers' = providers

CanStart(c) == calls[c].pc \in {"idle", "done"} /\ ops < MaxOps

\* the frame of a coroutine that starts now; id numbers the invocations
CommitStart(c, S) == Commit(c, [S EXCEPT !.call.id = ops + 1])

\* a client awaits manager.get_quote(raw, prefer_realtime=prefer)
GetQuote(c, raw, prefer, y) ==
    /\ CanStart(c)
    /\ CommitStart(c, MgrGetQuote(MgrState(c), raw, prefer, y, now))
    /\ ops' = ops + 1
    /\ UNCHANGED <<now, direct, batches, colVars>>

\* a client awaits manager.get_info(raw)
GetInfo(c, raw, y) ==
    /\ CanStart(c)
    /\ CommitStart(c, MgrGetInfo(MgrState(c), raw, y, now))
    /\ ops' = ops + 1
    /\ UNCHANGED <<now, direct, batches, colVars>>

\* a client awaits manager.get_historical(raw, period, interval)
GetHistorical(c, raw, period, interval, y) ==
    /\ CanStart(c)
    /\ CommitStart(c, MgrGetHistorical(MgrState(c), raw, period, interval, y, now))
    /\ ops' = ops + 1
    /\ UNCHANGED <<now, direct, batches, colVars>>

\* the vendor answers the request the coroutine of c is suspended on
NetReturn(c, resp, y) ==
    /\ calls[c].pc = "net"
    /\ Commit(c, ResumeCall(MgrState(c), resp, y, now))
    /\ UNCHANGED <<now, direct, batches, ops, colVars>>

\* POST /api/cache/clear: manager.clear_cache(symbol)
ClearCache(arg) ==
    /\ LET S == MgrClearCache(MgrState("c1"), arg) IN
        /\ quote_cache' = S.qc
        /\ info_cache' = S.ic
        /\ historical_cache' = S.hc
    /\ UNCHANGED <<now, providers, prov, calls, direct, batches, ops, colVars>>

\* the wall clock advances by d seconds, up to the horizon
Tick(d, horizon) ==
    /\ now + d <= horizon
    /\ now' = now + d
    /\ UNCHANGED <<mgrVars, direct, batches, ops, colVars>>

-----------------------------------------------------------------------------
(* A provider operation invoked directly on a provider object *)

\* a client awaits provider.get_quote / get_info / get_historical of p;
\* y is Yahoo's answer when p is Yahoo
ProviderCall(d, p, op, raw, y) ==
    /\ direct[d].pc \in {"idle", "done"}
    /\ LET frame == [IdleDirect EXCEPT !.seq = 1 - direct[d].seq, !.p = p, !.op = op,
                                       !.ticker = raw]
           st    == ProviderStart(p, prov[p], now)
           fin   == ProviderFinish(p, prov[p], op, raw, y, now)
       IN  IF p = "yahoo"
           THEN /\ prov' = [prov EXCEPT ![p] = fin.ps]
                /\ direct' = [direct EXCEPT ![d] =
                        [frame EXCEPT !.pc = "done", !.sent = TRUE, !.result = fin.result]]
           ELSE /\ prov' = [prov EXCEPT ![p] = st.ps]
                /\ direct' = [direct EXCEPT ![d] =
                        IF st.go THEN [frame EXCEPT !.pc = "net", !.sent = TRUE]
                                 ELSE [frame EXCEPT !.pc = "done"]]
    /\ UNCHANGED <<now, providers, quote_cache, info_cache, historical_cache, calls,
                   batches, ops, colVars>>

\* the vendor answers the request the provider operation of d is suspended on
ProviderReturn(d, resp) ==
    /\ direct[d].pc = "net"
    /\ LET f   == direct[d]
           fin == ProviderFinish(f.p, prov[f.p], f.op, f.ticker, resp, now)
       IN  /\ prov' = [prov EXCEPT ![f.p] = fin.ps]
           /\ direct' = [direct EXCEPT ![d] = [f EXCEPT !.pc = "done", !.result = fin.result]]
    /\ UNCHANGED <<now, providers, quote_cache, info_cache, historical_cache, calls,
                   batches, ops, colVars>>

\* the API-key settings explored for the provider operations
RateKeyConfigs == { {"alphavantage"} }
RateProviders  == { "alphavantage", "finnhub", "yahoo" }
RateTickers    == { <<"a">> }

\* what the vendor answers to a quote request in SpecRate
RateResponses ==
    { r \in Responses("quote") :
        r.kind = "ok" => r.data = Some([c |-> 11, pc |-> 10, o |-> 10, h |-> 12, l |-> 9, v |-> 500]) }

InitRate ==
    /\ now = 0
    /\ \E keys \in RateKeyConfigs : InitManager(keys)
    /\ InitCollector

NextRate ==
    \/ \E d \in DirectCallers, p \in RateProviders, raw \in RateTickers :
            \E y \in RateResponses : ProviderCall(d, p, "quote", raw, y)
    \/ \E d \in DirectCallers :
            \E resp \in RateResponses : ProviderReturn(d, resp)
    \/ Tick(TickStep, MaxRateTime)

SpecRate == InitRate /\ [][NextRate]_vars

\* Alpha Vantage called directly around midnight: the clock starts late on
\* day 0, early enough for the daily cap to be used up before day 1 begins
MaxDayTime == 86460
DayWindows == AlphaVantageDailyLimit \div AlphaVantageRateLimit
WindowStep == 3 * TickStep
DayStart   == MaxDayTime - DayWindows * WindowStep
DayOps     == { "quote", "info", "historical" }

\* what the vendor answers to a request in SpecDay
DayResponses(op) == IF op = "quote" THEN RateResponses ELSE Responses(op)

InitDay ==
    /\ now = DayStart
    /\ InitManager({"alphavantage"})
    /\ InitCollector

NextDay ==
    \/ \E d \in DirectCallers, op \in DayOps, raw \in RateTickers :
            \E y \in DayResponses(op) : ProviderCall(d, "alphavantage", op, raw, y)
    \/ \E d \in DirectCallers :
            \E resp \in DayResponses(direct[d].op) : ProviderReturn(d, resp)
    \/ Tick(TickStep, MaxDayTime)

SpecDay == InitDay /\ [][NextDay]_vars

-----------------------------------------------------------------------------
(* PriceCollector (services/price_collector.py).  Its coroutines run on the *)
(* same event loop: a step below is one uninterrupted run of a coroutine    *)
(* up to its next suspension (an HTTP request of a provider, a sleep, the   *)
(* await of the task) or its end.                                           *)

collection_interval == 3600   \* PriceCollector.__init__
Cooldown            == 60     \* the retry sleep of _run_scheduler

Range(seq) == { seq[i] : i \in 1..Len(seq) }

\* getattr: a dataclass instance has exactly its fields as attributes
HasAttr(obj, a) == a \in DOMAIN obj

\* Python's "x or y" over numbers
Or(x, y) == IF x # 0 THEN x ELSE y

Max(x, y) == IF x >= y THEN x ELSE y
Min(x, y) == IF x <= y THEN x ELSE y

\* datetime.now().replace(hour=0, minute=0, second=0, microsecond=0)
Today(t) == Date(t) * SecondsPerDay

\* a variant of _save_price that reads the fields StockQuote has and always adds a row
SavePriceAlwaysInsert(db, ticker, quote, t) ==
    db \cup { [ id |-> Cardinality(db) + 1, ticker |-> ticker, date |-> Today(t),
                open |-> quote.open_price, high |-> quote.high, low |-> quote.low,
                close |-> quote.current_price, volume |-> quote.volume,
                source |-> quote.source, created_at |-> t ] }

\* a _save_price that reads the fields StockQuote has and writes the day's
\* row anew, whatever the table held for the day
SavePriceReplacing(db, ticker, quote, t) ==
    { r \in db : ~(r.ticker = ticker /\ r.date = Today(t)) } \cup
        { [ id |-> Cardinality(db) + 1, ticker |-> ticker, date |-> Today(t),
            open |-> quote.open_price, high |-> quote.high, low |-> quote.low,
            close |-> quote.current_price, volume |-> quote.volume,
            source |-> quote.source, created_at |-> t ] }

\* PriceCollector._save_price: the table after the call.  An attribute the
\* quote object does not have raises AttributeError, which the handler of the
\* function answers with db.rollback()
SavePrice(db, ticker, quote, t) ==
    LET today == Today(t)
        found == { r \in db : r.ticker = ticker /\ r.date = today }
    IN  IF found # {}
        THEN LET existing == CHOOSE r \in found : \A q \in found : r.id <= q.id IN
             IF ~HasAttr(quote, "price")
             THEN db
             ELSE (db \ {existing}) \cup
                  { [ existing EXCEPT
                        !.close  = quote.price,
                        !.high   = Max(Or(existing.high, quote.price),
                                       Or(quote.high, quote.price)),
                        !.low    = Min(Or(existing.low, quote.price),
                                       Or(quote.low, quote.price)),
                        !.volume = Or(quote.volume, existing.volume),
                        !.source = quote.source ] }
        ELSE IF ~HasAttr(quote, "open") \/ ~HasAttr(quote, "price")
             THEN db
             ELSE db \cup { [ id |-> Cardinality(db) + 1, ticker |-> ticker,
                              date |-> today, open |-> quote.open, high |-> quote.high,
                              low |-> quote.low, close |-> quote.price,
                              volume |-> quote.volume, source |-> quote.source,
                              created_at |-> t ] }

\* the record of one more _save_price(db, ticker, quote) in the log
Logged(log, ticker, quote, kind, t) ==
    LET key == <<ticker, Today(t)>>
        old == DictGet(log, key)
    IN  DictPut(log, key,
            IF old = Absent
            THEN [ n |-> 1, kinds |-> {kind}, price |-> quote.current_price,
                   high |-> quote.high, low |-> quote.low ]
            ELSE [ n |-> old[1].n + 1, kinds |-> old[1].kinds \cup {kind},
                   price |-> quote.current_price,
                   high |-> Max(old[1].high, quote.high),
                   low  |-> Min(old[1].low, quote.low) ])

\* what the environment does to one run: Yahoo's answer per ticker, whether
\* SessionLocal() and the Holding query succeed, whether db.close() succeeds
ColTickers == { <<"a">>, <<"A", "B">> }
Opens      == { "ok", "session_error", "query_error" }
ColResponses == { r \in RateResponses : r.kind # "error" }
Envs(asked) == [ y : [asked -> ColResponses], open : Opens, close_ok : BOOLEAN ]

\* a filter that also takes the sold-out rows
HeldOrSoldOut(row) == row.quantity >= 0

\* the tickers of db.query(Holding).filter(Holding.quantity > 0).all()
Held(row) == row.quantity > 0
HeldTickers(rows) ==
    LET sel == SelectSeq(rows, Held) IN [ i \in 1..Len(sel) |-> sel[i].ticker ]

\* the state one run of a collection coroutine works on
ColState(pf, who) ==
    [ prov |-> prov, qc |-> quote_cache, ic |-> info_cache, hc |-> historical_cache,
      call |-> pf.call, db |-> price_history, log |-> save_log, pass |-> pf,
      who |-> who ]

\* finally: db.close(); the frame is gone, the outcome and the value returned stay
ClosePass(S, E) ==
    [S EXCEPT !.pass = [IdlePass EXCEPT !.pst  = IF E.close_ok THEN "done" ELSE "raised",
                                        !.kind = S.pass.kind,
                                        !.asked = S.pass.asked,
                                        !.ret  = S.pass.ret /\ E.close_ok]]

RECURSIVE PassLoop(_, _, _)

\* the loop body, but a ticker without a quote ends the pass
PassAfterQuoteAborting(S, E, t) ==
    LET ticker == S.pass.tickers[S.pass.i]
        quote  == S.call.result
    IN  IF quote = Absent
        THEN ClosePass([S EXCEPT !.pass.ret = FALSE], E)
        ELSE PassLoop([S EXCEPT !.db  = SavePrice(S.db, ticker, quote[1], t),
                                !.log = Logged(@, ticker, quote[1], S.pass.kind, t),
                                !.pass.ret = TRUE,
                                !.pass.i = @ + 1], E, t)

\* get_quote has returned for tickers[i]: save, then go on with the next ticker
PassAfterQuote(S, E, t) ==
    LET ticker == S.pass.tickers[S.pass.i]
        quote  == S.call.result
        S1 == IF quote # Absent
              THEN [S EXCEPT !.db  = SavePrice(S.db, ticker, quote[1], t),
                             !.log = Logged(@, ticker, quote[1], S.pass.kind, t),
                             !.pass.ret = TRUE]
              ELSE [S EXCEPT !.pass.ret = FALSE]
    IN  PassLoop([S1 EXCEPT !.pass.i = @ + 1], E, t)

\* "for ticker in tickers", from tickers[i] on, up to the next suspension
PassLoop(S, E, t) ==
    IF S.pass.i > Len(S.pass.tickers)
    THEN ClosePass(S, E)
    ELSE LET ticker == S.pass.tickers[S.pass.i]
             S1 == MgrGetQuote(S, ticker, TRUE, E.y[ticker], t)
             S2 == [S1 EXCEPT !.pass.call = S1.call, !.pass.asked = Append(@, ticker)]
         IN  IF S1.call.pc = "net"
             THEN [S2 EXCEPT !.pass.pst = "net"]
             ELSE PassAfterQuote(S2, E, t)

\* PriceCollector.collect_prices, from its first line
CollectPrices(S, E, t) ==
    LET S0 == [S EXCEPT !.pass = [IdlePass EXCEPT !.kind = "collect_prices"],
                        !.call = IdleCall]
    IN  IF E.open = "session_error" THEN [S0 EXCEPT !.pass.pst = "raised"]
        ELSE IF E.open = "query_error" THEN ClosePass(S0, E)
        ELSE PassLoop([S0 EXCEPT !.pass.tickers = HeldTickers(holdings), !.pass.i = 1],
                      E, t)

\* PriceCollector.collect_single(ticker), from its first line
CollectSingle(S, ticker, E, t) ==
    LET S0 == [S EXCEPT !.pass = [IdlePass EXCEPT !.kind = "collect_single"],
                        !.call = IdleCall]
    IN  IF E.open = "session_error" THEN [S0 EXCEPT !.pass.pst = "raised"]
        ELSE PassLoop([S0 EXCEPT !.pass.tickers = <<ticker>>, !.pass.i = 1], E, t)

\* a suspended collection coroutine is resumed with the provider's response
ResumePass(S, resp, E, t) ==
    LET S1 == ResumeCall(S, resp, E.y[S.pass.tickers[S.pass.i]], t)
        S2 == [S1 EXCEPT !.pass.call = S1.call]
    IN  IF S1.call.pc = "net"
        THEN [S2 EXCEPT !.pass.pst = "net"]
        ELSE PassAfterQuote(S2, E, t)

\* the frame of a _run_scheduler task; during_stop records that the task was
\* created while a stop() was still awaiting an earlier task
NewTask(overlap) ==
    [ pc |-> "created", first |-> TRUE, cancel |-> FALSE, wake |-> 0,
      pass |-> IdlePass, during_stop |-> overlap ]

Terminal == { "done", "cancelled", "failed" }
Alive(k) == tasks[k].pc \notin Terminal

\* the shared state after a run is written back
CommitCol(S) ==
    /\ prov' = S.prov
    /\ quote_cache' = S.qc
    /\ info_cache' = S.ic
    /\ historical_cache' = S.hc
    /\ price_history' = S.db
    /\ save_log' = S.log

\* "while self.is_running": sleep for the interval, or leave the loop
LoopTop(task, running, t) ==
    IF running
    THEN [task EXCEPT !.pc = "sleep", !.first = FALSE, !.wake = t + collection_interval,
                      !.pass = IdlePass]
    ELSE [task EXCEPT !.pc = "done", !.first = FALSE, !.pass = IdlePass, !.wake = 0]

\* _run_scheduler after a run of its collect_prices(): the pass is suspended,
\* has returned, or has raised (outside the try for the first pass, inside it
\* for the others)
AfterPass(task, pf, running, t) ==
    IF pf.pst = "net" THEN [task EXCEPT !.pc = "pass", !.pass = pf]
    ELSE IF pf.pst = "raised"
    THEN IF task.first
         THEN [task EXCEPT !.pc = "failed", !.pass = IdlePass]
         ELSE [task EXCEPT !.pc = "cooldown", !.wake = t + Cooldown, !.pass = IdlePass]
    ELSE LoopTop(task, running, t)

\* a variant of start() without the is_running test
StartUnguarded ==
    /\ ops < MaxColOps
    /\ is_running' = TRUE
    /\ tasks' = Append(tasks, NewTask(\E s \in StopCallers : stops[s].pc = "awaiting"))
    /\ task_ref' = Len(tasks) + 1
    /\ ops' = ops + 1
    /\ UNCHANGED <<now, mgrVars, direct, batches, stops, manual, history, holdings, price_history,
                   save_log>>

\* PriceCollector.start
Start ==
    IF is_running
    THEN UNCHANGED vars
    ELSE /\ ops < MaxColOps
         /\ is_running' = TRUE
         /\ tasks' = Append(tasks, NewTask(\E s \in StopCallers : stops[s].pc = "awaiting"))
         /\ task_ref' = Len(tasks) + 1
         /\ ops' = ops + 1
         /\ UNCHANGED <<now, mgrVars, direct, batches, stops, manual, history, holdings, price_history,
                        save_log>>

\* what "await self._task" gives once the task has ended
Awaited(task) == IF task.pc = "failed" THEN "raised" ELSE "returned"

\* a variant of stop() that does not await the task
StopNoAwait(s) ==
    /\ stops[s].pc # "awaiting"
    /\ is_running' = FALSE
    /\ IF task_ref = 0
       THEN /\ stops' = [stops EXCEPT ![s] = [pc |-> "returned", task |-> 0, found |-> "none"]]
            /\ tasks' = tasks
       ELSE /\ stops' = [stops EXCEPT ![s] =
                    [pc |-> "returned", task |-> task_ref, found |-> tasks[task_ref].pc]]
            /\ tasks' = IF Alive(task_ref)
                        THEN [tasks EXCEPT ![task_ref].cancel = TRUE] ELSE tasks
    /\ UNCHANGED <<now, mgrVars, direct, batches, ops, task_ref, manual, history, holdings, price_history,
                   save_log>>

\* PriceCollector.stop up to "await self._task"
Stop(s) ==
    /\ stops[s].pc # "awaiting"
    /\ is_running' = FALSE
    /\ IF task_ref = 0
       THEN /\ stops' = [stops EXCEPT ![s] = [pc |-> "returned", task |-> 0, found |-> "none"]]
            /\ tasks' = tasks
       ELSE LET task == tasks[task_ref] IN
            IF Alive(task_ref)
            THEN /\ tasks' = [tasks EXCEPT ![task_ref].cancel = TRUE]
                 /\ stops' = [stops EXCEPT ![s] =
                        [pc |-> "awaiting", task |-> task_ref, found |-> task.pc]]
            ELSE /\ tasks' = tasks
                 /\ stops' = [stops EXCEPT ![s] =
                        [pc |-> Awaited(task), task |-> task_ref, found |-> task.pc]]
    /\ UNCHANGED <<now, mgrVars, direct, batches, ops, task_ref, manual, history, holdings, price_history,
                   save_log>>

\* stop() resumes once the awaited task has ended
StopResume(s) ==
    /\ stops[s].pc = "awaiting"
    /\ ~Alive(stops[s].task)
    /\ stops' = [stops EXCEPT ![s].pc = Awaited(tasks[stops[s].task])]
    /\ UNCHANGED <<now, mgrVars, direct, batches, ops, is_running, task_ref, tasks, manual,
                   history, holdings, price_history, save_log>>

ColUnchanged == <<now, providers, calls, direct, batches, ops, is_running, task_ref, stops,
                  manual, history, holdings>>

\* the task's first step: line 52, the immediate pass
TaskBegin(k, E) ==
    /\ tasks[k].pc = "created" /\ ~tasks[k].cancel
    /\ LET S == CollectPrices(ColState(IdlePass, k), E, now) IN
        /\ CommitCol(S)
        /\ tasks' = [tasks EXCEPT ![k] = AfterPass(@, S.pass, is_running, now)]
    /\ UNCHANGED ColUnchanged

\* asyncio.sleep(collection_interval) is over: the pass of the loop
TaskWake(k, E) ==
    /\ tasks[k].pc = "sleep" /\ ~tasks[k].cancel
    /\ now >= tasks[k].wake
    /\ LET S == CollectPrices(ColState(IdlePass, k), E, now) IN
        /\ CommitCol(S)
        /\ tasks' = [tasks EXCEPT ![k] = AfterPass(@, S.pass, is_running, now)]
    /\ UNCHANGED ColUnchanged

\* the provider's response reaches the pass of task k
TaskNet(k, resp, E) ==
    /\ tasks[k].pc = "pass" /\ ~tasks[k].cancel
    /\ LET S == ResumePass(ColState(tasks[k].pass, k), resp, E, now) IN
        /\ CommitCol(S)
        /\ tasks' = [tasks EXCEPT ![k] = AfterPass(@, S.pass, is_running, now)]
    /\ UNCHANGED ColUnchanged

\* asyncio.sleep(60) of the error handler is over
TaskCooldownOver(k) ==
    /\ tasks[k].pc = "cooldown" /\ ~tasks[k].cancel
    /\ now >= tasks[k].wake
    /\ tasks' = [tasks EXCEPT ![k] = LoopTop(@, is_running, now)]
    /\ UNCHANGED <<now, mgrVars, direct, batches, ops, is_running, task_ref, stops, manual,
                   history, holdings, price_history, save_log>>

\* CancelledError is thrown into task k where it is suspended.  In a pass the
\* finally clause runs db.close(); an error of it replaces the CancelledError
TaskCancelled(k, close_ok) ==
    /\ Alive(k) /\ tasks[k].cancel
    /\ LET task == tasks[k]
           ended(pc) == [task EXCEPT !.pc = pc, !.pass = IdlePass, !.wake = 0]
       IN  tasks' = [tasks EXCEPT ![k] =
                CASE task.pc = "created"  -> ended("cancelled")
                  [] task.pc = "sleep"    -> ended("done")
                  [] task.pc = "cooldown" -> ended("cancelled")
                  [] task.pc = "pass" /\ task.first ->
                        IF close_ok THEN ended("cancelled") ELSE ended("failed")
                  [] task.pc = "pass" /\ ~task.first ->
                        IF close_ok THEN ended("done")
                        ELSE [task EXCEPT !.pc = "cooldown", !.cancel = FALSE,
                                          !.wake = now + Cooldown, !.pass = IdlePass]]
    /\ UNCHANGED <<now, mgrVars, direct, batches, ops, is_running, task_ref, stops, manual,
                   history, holdings, price_history, save_log>>

ManualUnchanged == <<now, providers, calls, direct, batches, is_running, task_ref, tasks, stops,
                     history, holdings>>

CanCollect(m) == manual[m].pst # "net" /\ ops < MaxColOps

\* POST /api/collector/collect: await collector.collect_prices()
ManualCollect(m, E) ==
    /\ CanCollect(m)
    /\ LET S == CollectPrices(ColState(IdlePass, 0), E, now) IN
        /\ CommitCol(S)
        /\ manual' = [manual EXCEPT ![m] = S.pass]
    /\ ops' = ops + 1
    /\ UNCHANGED ManualUnchanged

\* await collector.collect_single(ticker)
ManualSingle(m, ticker, E) ==
    /\ CanCollect(m)
    /\ E.open # "query_error"
    /\ LET S == CollectSingle(ColState(IdlePass, 0), ticker, E, now) IN
        /\ CommitCol(S)
        /\ manual' = [manual EXCEPT ![m] = S.pass]
    /\ ops' = ops + 1
    /\ UNCHANGED ManualUnchanged

\* the provider's response reaches the manual collection
ManualNet(m, resp, E) ==
    /\ manual[m].pst = "net"
    /\ LET S == ResumePass(ColState(manual[m], 0), resp, E, now) IN
        /\ CommitCol(S)
        /\ manual' = [manual EXCEPT ![m] = S.pass]
    /\ UNCHANGED <<ops, ManualUnchanged>>

\* the event loop's timers: the clock advances to a pending deadline
ColSteps ==
    { tasks[k].wake - now : k \in { j \in 1..Len(tasks) :
            tasks[j].pc \in {"sleep", "cooldown"} /\ tasks[j].wake > now } }

\* the tickers a collect_prices() asks for
HeldSet == { holdings[i].ticker : i \in { j \in 1..Len(holdings) : Held(holdings[j]) } }

InitCol ==
    /\ now = 0
    /\ \E cfg \in ColConfigs : InitManager(cfg.keys) /\ InitCollectorWith(cfg.rows)

NextCol ==
    \/ Start
    \/ \E s \in StopCallers : Stop(s)
    \/ \E s \in StopCallers : StopResume(s)
    \/ \E k \in 1..Len(tasks), E \in Envs(HeldSet) : TaskBegin(k, E)
    \/ \E k \in 1..Len(tasks), E \in Envs(HeldSet) : TaskWake(k, E)
    \/ \E k \in 1..Len(tasks), resp \in ColResponses, E \in Envs(HeldSet) : TaskNet(k, resp, E)
    \/ \E k \in 1..Len(tasks) : TaskCooldownOver(k)
    \/ \E k \in 1..Len(tasks), close_ok \in BOOLEAN : TaskCancelled(k, close_ok)
    \/ \E m \in ManualCallers, E \in Envs(HeldSet) : ManualCollect(m, E)
    \/ \E m \in ManualCallers, ticker \in ColTickers :
            \E E \in Envs({ticker}) : ManualSingle(m, ticker, E)
    \/ \E m \in ManualCallers, resp \in ColResponses :
            \E E \in Envs(Range(manual[m].tickers)) : ManualNet(m, resp, E)
    \/ \E d \in ColSteps : Tick(d, MaxColTime)

SpecCol == InitCol /\ [][NextCol]_vars

\* datetime.isoformat(): the calendar date, "T", the time of day
Isoformat(d) == <<Date(d), "T", d % SecondsPerDay>>

\* order_by(PriceHistory.date.asc()) over rows of one ticker, whose dates
\* differ by the unique constraint on (ticker, date)
RECURSIVE OrderByDate(_)
OrderByDate(rows) ==
    IF rows = {} THEN <<>>
    ELSE LET r == CHOOSE x \in rows : \A q \in rows : x.date <= q.date
         IN  <<r>> \o OrderByDate(rows \ {r})

\* PriceCollector.get_history(ticker, days) at time t
GetHistory(db, ticker, days, t) ==
    LET since   == t - days * SecondsPerDay
        records == OrderByDate({ r \in db : r.ticker = ticker /\ r.date >= since })
    IN  [ i \in 1..Len(records) |->
            [ timestamp |-> Isoformat(records[i].date), open |-> records[i].open,
              high |-> records[i].high, low |-> records[i].low,
              close |-> records[i].close, volume |-> records[i].volume,
              source |-> records[i].source ] ]

\* GET /api/collector/history/{symbol}: collector.get_history(symbol, days);
\* an error of SessionLocal() or of the query leaves the call as an exception
GetHistoryCall(h, ticker, days, ok) ==
    /\ history' = [history EXCEPT ![h] =
            IF ok
            THEN [ pc |-> "done", ticker |-> ticker, days |-> days, at |-> now,
                   result |-> GetHistory(price_history, ticker, days, now) ]
            ELSE [ pc |-> "raised", ticker |-> ticker, days |-> days, at |-> now,
                   result |-> <<>> ]]
    /\ UNCHANGED <<now, mgrVars, direct, batches, ops, is_running, task_ref, tasks, stops,
                   manual, holdings, price_history, save_log>>

(* The stored history read back: the table holds any rows of two tickers   *)
(* dated at midnight of three consecutive days, as _save_price stamps them, *)
(* and the clock starts at midnight of the third day.                       *)
StoreDays   == {0, 1, 2}
StoreStart  == 2 * SecondsPerDay
MaxStoreTime == StoreStart + 2 * TickStep
DaysArgs    == {1, 2}

StoredRow(ticker, day) ==
    [ id |-> 2 * day + Len(ticker), ticker |-> ticker, date |-> day * SecondsPerDay,
      open |-> 10, high |-> 12 + day, low |-> 9, close |-> 11 + day, volume |-> 500,
      source |-> "yahoo", created_at |-> day * SecondsPerDay + TickStep ]

StoredTables == SUBSET { StoredRow(ticker, day) : ticker \in ColTickers, day \in StoreDays }

InitStore ==
    /\ now = StoreStart
    /\ InitManager({})
    /\ \E table \in StoredTables : InitCollectorFull(<<>>, table)

NextStore ==
    \/ \E h \in HistoryCallers, ticker \in ColTickers, days \in DaysArgs, ok \in BOOLEAN :
            GetHistoryCall(h, ticker, days, ok)
    \/ Tick(TickStep, MaxStoreTime)

SpecStore == InitStore /\ [][NextStore]_vars

(* Manual collections alone, with a Finnhub key and two held tickers beside *)
(* a sold-out one: every get_quote of a pass suspends at Finnhub, so the     *)
(* pass is seen between its tickers.                                         *)
PassRows ==
    << [ticker |-> <<"a">>, quantity |-> 5],
       [ticker |-> <<"B">>, quantity |-> 0],
       [ticker |-> <<"A", "B">>, quantity |-> 3] >>

InitPass ==
    /\ now = 0
    /\ InitManager({"finnhub"})
    /\ InitCollectorWith(PassRows)

NextPass ==
    \/ \E m \in ManualCallers, E \in Envs(HeldSet) : ManualCollect(m, E)
    \/ \E m \in ManualCallers, ticker \in ColTickers :
            \E E \in Envs({ticker}) : ManualSingle(m, ticker, E)
    \/ \E m \in ManualCallers, resp \in RateResponses :
            \E E \in Envs(Range(manual[m].tickers)) : ManualNet(m, resp, E)

SpecPass == InitPass /\ [][NextPass]_vars

Next ==
    \/ \E c \in Callers, raw \in RawTickers, prefer \in BOOLEAN, y \in Responses("quote") :
            GetQuote(c, raw, prefer, y)
    \/ \E c \in Callers, raw \in RawTickers, y \in Responses("info") :
            GetInfo(c, raw, y)
    \/ \E c \in Callers, raw \in RawTickers, period \in Periods, interval \in Intervals,
          y \in Responses("historical") :
            GetHistorical(c, raw, period, interval, y)
    \/ \E c \in Callers :
            \E resp \in Responses(calls[c].op), y \in Responses(calls[c].op) :
                NetReturn(c, resp, y)
    \/ \E arg \in {Absent} \cup { Some(r) : r \in RawTickers } : ClearCache(arg)
    \/ Tick(TickStep, MaxTime)

Spec == Init /\ [][Next]_vars

-----------------------------------------------------------------------------
(* get_historical alone, with the periods and intervals the endpoint       *)
(* GET /api/stocks/{symbol}/history lets through                           *)

HistPeriods   == { <<"1","y">>, <<"1","d">> }
HistIntervals == { <<"1","d">>, <<"1","m">> }

NextHist ==
    \/ \E c \in Callers, raw \in RawTickers, period \in HistPeriods,
          interval \in HistIntervals, y \in Responses("historical") :
            GetHistorical(c, raw, period, interval, y)
    \/ \E c \in Callers :
            \E resp \in Responses(calls[c].op), y \in Responses(calls[c].op) :
                NetReturn(c, resp, y)
    \/ Tick(TickStep, MaxTime)

SpecHist == Init /\ [][NextHist]_vars

-----------------------------------------------------------------------------
(* The read operations around the expiry of their cache entries: the clock *)
(* moves to the second before each TTL and to the second of the TTL         *)

MaxTtlTime == 3600

EdgeTimes ==
    UNION { {ttl - 1, ttl} :
                ttl \in {QUOTE_CACHE_TTL, INFO_CACHE_TTL, HISTORICAL_CACHE_TTL} }

\* what a vendor answers in SpecTtl
TtlResponses(op) == IF op = "quote" THEN RateResponses ELSE Responses(op)

InitTtl ==
    /\ now = 0
    /\ InitManager({"finnhub"})
    /\ InitCollector

NextTtl ==
    \/ \E c \in Callers, raw \in RateTickers, y \in TtlResponses("quote") :
            GetQuote(c, raw, FALSE, y)
    \/ \E c \in Callers, raw \in RateTickers, y \in TtlResponses("info") :
            GetInfo(c, raw, y)
    \/ \E c \in Callers, raw \in RateTickers, period \in Periods, interval \in Intervals,
          y \in TtlResponses("historical") :
            GetHistorical(c, raw, period, interval, y)
    \/ \E c \in Callers :
            \E resp \in TtlResponses(calls[c].op), y \in TtlResponses(calls[c].op) :
                NetReturn(c, resp, y)
    \/ \E t \in EdgeTimes : t > now /\ Tick(t - now, MaxTtlTime)

SpecTtl == InitTtl /\ [][NextTtl]_vars

-----------------------------------------------------------------------------
(* MarketDataManager.search and get_multiple_quotes *)

Queries        == { <<"a">> }
SearchPayloads == { << [symbol |-> <<"A">>, name |-> "Acme"] >> }

\* an exception that leaves a provider operation
Raise == [kind |-> "raise", data |-> Absent]

\* what a vendor answers to a search request
SearchResponses ==
    { [kind |-> "error", data |-> Absent], [kind |-> "empty", data |-> Absent] }
        \cup { [kind |-> "ok", data |-> d] : d \in SearchPayloads }

\* provider.search before a request is sent: Yahoo asks yfinance at once,
\* Tiingo (like the base class) returns [] without a request, Finnhub and
\* Alpha Vantage need a key and a free quota
SearchStart(p, ps, t) ==
    IF p = "yahoo" THEN [ps |-> ps, go |-> TRUE]
    ELSE IF p = "tiingo" THEN [ps |-> ps, go |-> FALSE]
    ELSE IF ~ps.api_key THEN [ps |-> ps, go |-> FALSE]
    ELSE LET r == CheckRateLimit(p, ps, t) IN [ps |-> r.ps, go |-> r.ok]

\* the list a provider's search builds from the vendor payload; Yahoo
\* answers with the upper-cased query as the only symbol
SearchResult(p, query, data) ==
    IF p = "yahoo"
    THEN << [symbol |-> Upper(query), name |-> data[1].name] >>
    ELSE data

\* provider.search once the vendor has answered: Yahoo records no error,
\* Finnhub counts every answered request, Alpha Vantage only one with matches
SearchFinish(p, ps, query, resp, t) ==
    CASE resp.kind = "error" ->
            [ps     |-> IF p = "yahoo" THEN ps ELSE [ps EXCEPT !.last_error = "error"],
             result |-> <<>>]
      [] resp.kind = "empty" ->
            [ps     |-> IF p = "finnhub" THEN IncrementRequest(ps) ELSE ps,
             result |-> <<>>]
      [] resp.kind = "ok" ->
            [ps     |-> IF p = "yahoo" THEN ps ELSE IncrementRequest(ps),
             result |-> SearchResult(p, query, resp.data)]

(* The "for provider in self.providers" loop of search, run from the       *)
(* frame's position to the next suspension or to the return.               *)
RECURSIVE SearchIterate(_, _, _)
RECURSIVE SearchOnResult(_, _, _, _, _)
RECURSIVE SearchOnRaise(_, _, _)

SearchIterate(S, y, t) ==
    LET c == S.call IN
    IF c.idx > Len(c.order)
    THEN [S EXCEPT !.call.pc = "done", !.call.result = <<>>]
    ELSE LET p == c.order[c.idx] IN
         IF ~S.prov[p].is_available
         THEN SearchIterate([S EXCEPT !.call.idx = @ + 1], y, t)
         ELSE LET S1 == [S EXCEPT !.call.called = Append(@, p)]
                  st == SearchStart(p, S1.prov[p], t)
              IN  IF p = "yahoo"
                  THEN IF y.kind = "raise"
                       THEN SearchOnRaise(S1, y, t)
                       ELSE SearchOnResult(S1, p,
                               SearchFinish(p, S1.prov[p], c.ticker, y, t), y, t)
                  ELSE IF st.go
                  THEN [S1 EXCEPT !.prov[p] = st.ps, !.call.pc = "net"]
                  ELSE SearchOnResult(S1, p, [ps |-> st.ps, result |-> <<>>], y, t)

\* the loop body, but only the last provider's list is returned
SearchOnResultLast(S, p, fin, y, t) ==
    LET S2 == [S EXCEPT !.prov[p] = fin.ps] IN
    IF fin.result # <<>> /\ S.call.idx = Len(S.call.order)
    THEN [S2 EXCEPT !.call.pc = "done", !.call.result = fin.result]
    ELSE SearchIterate([S2 EXCEPT !.call.idx = @ + 1], y, t)

\* "if results: return results", else the loop goes on
SearchOnResult(S, p, fin, y, t) ==
    LET S2 == [S EXCEPT !.prov[p] = fin.ps] IN
    IF fin.result # <<>>
    THEN [S2 EXCEPT !.call.pc = "done", !.call.result = fin.result]
    ELSE SearchIterate([S2 EXCEPT !.call.idx = @ + 1], y, t)

\* "except Exception as e: logger.warning(...); continue"
SearchOnRaise(S, y, t) ==
    SearchIterate([S EXCEPT !.call.warned = Append(@, S.call.order[S.call.idx]),
                            !.call.idx = @ + 1], y, t)

\* MarketDataManager.search
MgrSearch(S, query, y, t) ==
    SearchIterate([S EXCEPT !.call =
                    [IdleCall EXCEPT !.op = "search", !.ticker = query, !.idx = 1,
                                     !.order = providers]],
                  y, t)

\* the run of search that follows the vendor's answer to the pending request
SearchResume(S, resp, y, t) ==
    LET c == S.call
        p == c.order[c.idx]
    IN  IF resp.kind = "raise"
        THEN SearchOnRaise(S, y, t)
        ELSE SearchOnResult(S, p, SearchFinish(p, S.prov[p], c.ticker, resp, t), y, t)

\* the get_quote coroutines of one gather, in the order of the argument
BatchSlots == << "g1", "g2" >>

\* the lists of tickers get_multiple_quotes is called with
BatchTickers ==
    { <<>>, << <<"a">> >>, << <<"a">>, <<"A">> >>, << <<"a">>, <<"A", "B">> >> }

\* what asyncio.gather(..., return_exceptions=True) yields for a finished
\* get_quote coroutine: its return value, or the exception it raised
Gathered(f) ==
    IF f.pc = "raised" THEN [kind |-> "exception", value |-> Absent]
    ELSE [kind |-> "value", value |-> f.result]

\* isinstance(result, StockQuote)
IsStockQuote(g) == g.kind = "value" /\ g.value # Absent

\* the mapping keyed by the tickers as they were given
ZipQuotesRawKeys(tickers, results, n) ==
    LET found == { i \in 1..n : IsStockQuote(results[i]) } IN
    [ k \in { tickers[i] : i \in found } |->
        results[CHOOSE i \in found :
                    tickers[i] = k /\ \A j \in found : tickers[j] = k => j <= i].value[1] ]

\* the loop over zip(tickers, results), up to and including position n
RECURSIVE ZipQuotes(_, _, _)
ZipQuotes(tickers, results, n) ==
    IF n = 0 THEN <<>>
    ELSE LET quotes == ZipQuotes(tickers, results, n - 1) IN
         IF IsStockQuote(results[n])
         THEN DictPut(quotes, Upper(tickers[n]), results[n].value[1])
         ELSE quotes

\* a client awaits manager.search(query)
Search(c, query, y) ==
    /\ CanStart(c)
    /\ CommitStart(c, MgrSearch(MgrState(c), query, y, now))
    /\ ops' = ops + 1
    /\ UNCHANGED <<now, direct, batches, colVars>>

\* the vendor answers the request the search of c is suspended on
SearchReturn(c, resp, y) ==
    /\ calls[c].pc = "net" /\ calls[c].op = "search"
    /\ Commit(c, SearchResume(MgrState(c), resp, y, now))
    /\ UNCHANGED <<now, direct, batches, ops, colVars>>

\* a client awaits manager.get_multiple_quotes(tickers): the coroutines are
\* created and handed to gather, and the caller is suspended; the lookups
\* count as operations started
GetMultipleQuotes(b, tickers) ==
    /\ batches[b].pc \in {"idle", "done"}
    /\ ops + Len(tickers) <= MaxOps
    /\ Len(tickers) <= Len(BatchSlots)
    /\ batches' = [batches EXCEPT ![b] =
                        [IdleBatch EXCEPT !.pc = "gather", !.tickers = tickers]]
    /\ ops' = ops + Len(tickers)
    /\ UNCHANGED <<now, mgrVars, direct, colVars>>

\* the next get_quote task of the gather runs from its first line; id
\* numbers the invocations that ran in the slot
TaskStart(b, y) ==
    /\ batches[b].pc = "gather"
    /\ batches[b].started < Len(batches[b].tickers)
    /\ LET i == batches[b].started + 1
           c == BatchSlots[i]
           S == MgrGetQuote(MgrState(c), batches[b].tickers[i], FALSE, y, now)
       IN  /\ Commit(c, [S EXCEPT !.call.id = calls[c].id + 1])
           /\ batches' = [batches EXCEPT ![b].started = i]
    /\ UNCHANGED <<now, direct, ops, colVars>>

\* every task of the gather has finished: get_multiple_quotes builds the
\* mapping and returns it
BatchJoin(b) ==
    /\ batches[b].pc = "gather"
    /\ batches[b].started = Len(batches[b].tickers)
    /\ \A i \in 1..Len(batches[b].tickers) :
            calls[BatchSlots[i]].pc \in {"done", "raised"}
    /\ LET tickers == batches[b].tickers
           results == [i \in 1..Len(tickers) |-> Gathered(calls[BatchSlots[i]])]
       IN  batches' = [batches EXCEPT ![b].pc = "done",
                                      ![b].result = ZipQuotes(tickers, results, Len(tickers))]
    /\ UNCHANGED <<now, mgrVars, direct, ops, colVars>>

\* the API-key settings explored for search and get_multiple_quotes
BatchKeyConfigs == { {"finnhub"}, {"tiingo"} }

\* what a provider operation comes back with in SpecBatch
BatchResponses(op) ==
    {Raise} \cup CASE op = "search" -> SearchResponses
                  [] op = "quote"  -> RateResponses
                  [] OTHER         -> Responses(op)

InitBatch ==
    /\ now = 0
    /\ \E keys \in BatchKeyConfigs :
            InitManagerFor(keys, Callers \cup Range(BatchSlots))
    /\ InitCollector

NextBatch ==
    \/ \E c \in Callers, query \in Queries, y \in BatchResponses("search") :
            Search(c, query, y)
    \/ \E c \in Callers :
            \E resp \in BatchResponses("search"), y \in BatchResponses("search") :
                SearchReturn(c, resp, y)
    \/ \E c \in Callers, raw \in RateTickers, y \in BatchResponses("info") :
            GetInfo(c, raw, y)
    \/ \E c \in Callers, raw \in RateTickers, period \in Periods, interval \in Intervals,
          y \in BatchResponses("historical") :
            GetHistorical(c, raw, period, interval, y)
    \/ \E c \in Callers :
            /\ calls[c].op # "search"
            /\ \E resp \in BatchResponses(calls[c].op), y \in BatchResponses(calls[c].op) :
                    NetReturn(c, resp, y)
    \/ \E b \in BatchCallers, tickers \in BatchTickers : GetMultipleQuotes(b, tickers)
    \/ \E b \in BatchCallers, y \in BatchResponses("quote") : TaskStart(b, y)
    \/ \E c \in Range(BatchSlots) :
            \E resp \in BatchResponses("quote"), y \in BatchResponses("quote") :
                NetReturn(c, resp, y)
    \/ \E b \in BatchCallers : BatchJoin(b)

SpecBatch == InitBatch /\ [][NextBatch]_vars

-----------------------------------------------------------------------------
(* Vocabulary of the properties *)

Last(seq)  == seq[Len(seq)]

\* the coroutine of c starts in this step
Started(c) == calls'[c].id # calls[c].id

\* the coroutine of c returns in this step
Completed(c) == calls'[c].pc = "done" /\ (calls[c].pc # "done" \/ Started(c))

\* the coroutine of c runs in this step
Ran(c) == calls'[c] # calls[c]

NextCacheOf(op) ==
    CASE op = "quote"      -> quote_cache'
      [] op = "info"       -> info_cache'
      [] op = "historical" -> historical_cache'

\* position of a provider in the order a call tries them: ascending
\* priority, the baseline vendor moved to the end when realtime is preferred
TryRank(prefer, p) ==
    IF prefer /\ p = "yahoo" THEN Len(Registration) + 1 ELSE priority(p)

\* the providers f has called come in trying order, and none that is
\* available was passed over
CalledInOrder(f) ==
    /\ \A i, j \in 1..Len(f.called) :
            i < j => TryRank(f.prefer, f.called[i]) < TryRank(f.prefer, f.called[j])
    /\ \A p \in ProviderNames :
            ( /\ f.called # <<>>
              /\ prov[p].is_available
              /\ TryRank(f.prefer, p) < TryRank(f.prefer, Last(f.called)) )
            => p \in Range(f.called)

\* f returned absent/empty after every available provider was called
Exhausted(f) ==
    /\ f.pc = "done" /\ ~f.hit /\ f.result = Absent
    /\ \A p \in ProviderNames : prov[p].is_available => p \in Range(f.called)

-----------------------------------------------------------------------------
(* C1: a get_quote(T, prefer_realtime=false) that starts while the quote   *)
(* cache holds an entry for T younger than the quote TTL returns that      *)
(* entry's quote at once, calls no provider and changes neither a provider *)
(* nor the cache.                                                          *)
C1_CacheHitCallsNoProvider ==
    [][ \A c \in DOMAIN calls :
          ( /\ Started(c)
            /\ calls'[c].op = "quote"
            /\ ~calls'[c].prefer
            /\ calls'[c].key \in DOMAIN quote_cache
            /\ now - quote_cache[calls'[c].key].timestamp < QUOTE_CACHE_TTL )
          => /\ calls'[c].pc = "done"
             /\ calls'[c].result = Some(quote_cache[calls'[c].key].data)
             /\ calls'[c].called = <<>>
             /\ prov' = prov
             /\ quote_cache' = quote_cache ]_vars

\* a hit on an entry fetched earlier, within the TTL
C1_Witness ==
    \E c \in DOMAIN calls :
        /\ calls[c].pc = "done" /\ calls[c].op = "quote" /\ calls[c].hit
        /\ calls[c].called = <<>>
        /\ calls[c].key \in DOMAIN quote_cache
        /\ calls[c].result = Some(quote_cache[calls[c].key].data)
        /\ now - quote_cache[calls[c].key].timestamp > 0

(* C2 as stated: within every Manager read call the providers are called   *)
(* in ascending priority order.                                            *)
C2_AscendingPriorityAlways ==
    \A c \in DOMAIN calls :
        \A i, j \in 1..Len(calls[c].called) :
            i < j => priority(calls[c].called[i]) < priority(calls[c].called[j])

(* C2 amended: within one get_quote / get_info / get_historical call the   *)
(* providers are called one at a time in ascending priority order, except  *)
(* that get_quote with prefer_realtime=true calls the baseline vendor      *)
(* 'yahoo' after all others; no available provider is passed over; the     *)
(* call stops at the first provider that returns a result, and the cache   *)
(* entry written then has that provider as its source.                     *)
C2_SequentialFallback ==
    [][ \A c \in DOMAIN calls :
          LET f == calls'[c] IN
          /\ (f.op # "quote" => ~f.prefer)
          /\ \A i, j \in 1..Len(f.called) :
                i < j => TryRank(f.prefer, f.called[i]) < TryRank(f.prefer, f.called[j])
          /\ \A p \in ProviderNames :
                ( /\ f.called # <<>>
                  /\ prov'[p].is_available
                  /\ TryRank(f.prefer, p) < TryRank(f.prefer, Last(f.called)) )
                => p \in Range(f.called)
          /\ (f.pc = "net" => f.called # <<>> /\ Last(f.called) = f.order[f.idx])
          /\ ( (f.pc = "done" /\ ~f.hit /\ f.result = Absent)
                => \A p \in ProviderNames : prov'[p].is_available => p \in Range(f.called) )
          /\ ( (Completed(c) /\ ~f.hit /\ f.result # Absent)
                => /\ f.called # <<>>
                   /\ f.key \in DOMAIN NextCacheOf(f.op)
                   /\ NextCacheOf(f.op)[f.key].source = Last(f.called)
                   /\ NextCacheOf(f.op)[f.key].timestamp = now
                   /\ f.result = CacheHitValue(f.op, NextCacheOf(f.op)[f.key]) ) ]_vars

\* the first provider failed, the second answered and is the cached source
C2_Witness ==
    \E c \in DOMAIN calls :
        /\ calls[c].pc = "done" /\ ~calls[c].hit /\ ~calls[c].prefer
        /\ calls[c].called = <<"yahoo", "finnhub">>
        /\ calls[c].result # Absent
        /\ calls[c].key \in DOMAIN quote_cache
        /\ calls[c].op = "quote"
        /\ quote_cache[calls[c].key].source = "finnhub"

(* C3: a get_quote run that does not end by returning a quote leaves the   *)
(* quote cache as it was, and get_quote returns absent only after every    *)
(* available provider was called and returned nothing.                     *)
C3_FailureLeavesCache ==
    [][ \A c \in DOMAIN calls :
          LET f == calls'[c] IN
          /\ ( (Ran(c) /\ f.op = "quote" /\ ~(f.pc = "done" /\ f.result # Absent))
                => quote_cache' = quote_cache )
          /\ ( (f.op = "quote" /\ f.pc = "done" /\ f.result = Absent)
                => \A p \in ProviderNames : prov'[p].is_available => p \in Range(f.called) ) ]_vars

\* every provider failed while a stale entry of the ticker was cached
C3_Witness ==
    \E c \in DOMAIN calls :
        /\ calls[c].op = "quote" /\ Exhausted(calls[c])
        /\ Len(calls[c].called) >= 2
        /\ calls[c].key \in DOMAIN quote_cache
        /\ now - quote_cache[calls[c].key].timestamp >= QUOTE_CACHE_TTL

(* C10: a get_quote with prefer_realtime=true calls the available          *)
(* providers other than 'yahoo' in ascending priority order and 'yahoo'    *)
(* last, and calls 'yahoo' only when every available realtime provider was *)
(* called and returned nothing.                                            *)
C10_RealtimeFirst ==
    \A c \in DOMAIN calls :
        LET f == calls[c] IN
        (f.op = "quote" /\ f.prefer) =>
            /\ \A i, j \in 1..Len(f.called) :
                  i < j => /\ f.called[i] # "yahoo"
                           /\ priority(f.called[i]) < priority(f.called[j])
                              \/ f.called[j] = "yahoo"
            /\ "yahoo" \in Range(f.called) =>
                  \A p \in KeyedProviders : prov[p].is_available => p \in Range(f.called)
            /\ (f.pc = "done" /\ f.result # Absent /\ f.result[1].source # "yahoo")
                  => "yahoo" \notin Range(f.called)
            /\ (f.pc = "done" /\ f.result # Absent) => f.result[1].source = Last(f.called)

\* both realtime providers were called, in priority order, before yahoo
C10_Witness ==
    \E c \in DOMAIN calls :
        /\ calls[c].op = "quote" /\ calls[c].prefer /\ calls[c].pc = "done"
        /\ calls[c].called = <<"finnhub", "alphavantage", "yahoo">>
        /\ calls[c].result # Absent

\* the provider operation of d starts in this step
DirectStarted(d) == direct'[d].seq # direct[d].seq

(* C4 as stated: for a provider with a per-minute cap, a call made in a    *)
(* window in which rate_limit calls were counted is refused without a      *)
(* request; a call made more than 60 seconds after the window's reset sets *)
(* the per-minute counter to 0 and is sent to the vendor.                  *)
C4_WindowResetReopens ==
    [][ \A d \in DOMAIN direct :
          LET p == direct'[d].p IN
          (DirectStarted(d) /\ rate_limit(p) # 0 /\ prov[p].api_key) =>
            /\ ( ( /\ prov[p].request_count >= rate_limit(p)
                   /\ now - prov[p].last_reset <= SecondsPerMinute )
                 => /\ direct'[d].pc = "done"
                    /\ ~direct'[d].sent
                    /\ direct'[d].result = Absent
                    /\ prov'[p].request_count = prov[p].request_count )
            /\ ( now - prov[p].last_reset > SecondsPerMinute
                 => /\ prov'[p].request_count = 0
                    /\ prov'[p].last_reset = now
                    /\ direct'[d].pc = "net"
                    /\ direct'[d].sent ) ]_vars

(* C4 amended: for a provider with an API key and a per-minute cap, a call *)
(* made while request_count has reached rate_limit and no more than 60     *)
(* seconds have passed since the window's reset is refused without a       *)
(* request; a call made more than 60 seconds after the reset sets the      *)
(* per-minute counter to 0, and is sent to the vendor unless the           *)
(* provider's per-day cap is exhausted.                                    *)
C4_WindowResetReopensUnlessDailyCap ==
    [][ \A d \in DOMAIN direct :
          LET p == direct'[d].p IN
          (DirectStarted(d) /\ rate_limit(p) # 0 /\ prov[p].api_key) =>
            /\ ( ( /\ prov[p].request_count >= rate_limit(p)
                   /\ now - prov[p].last_reset <= SecondsPerMinute )
                 => /\ direct'[d].pc = "done"
                    /\ ~direct'[d].sent
                    /\ direct'[d].result = Absent
                    /\ prov'[p].request_count = prov[p].request_count )
            /\ ( now - prov[p].last_reset > SecondsPerMinute
                 => /\ prov'[p].request_count = 0
                    /\ prov'[p].last_reset = now
                    /\ ( (daily_limit(p) = 0 \/ prov[p].daily_request_count < daily_limit(p))
                         => direct'[d].pc = "net" /\ direct'[d].sent ) ) ]_vars

\* a call refused in a later window that is full, the per-day cap not reached
C4_Witness ==
    \E d \in DOMAIN direct :
        LET p == direct[d].p IN
        /\ direct[d].pc = "done" /\ ~direct[d].sent /\ direct[d].result = Absent
        /\ prov[p].api_key /\ rate_limit(p) # 0
        /\ prov[p].request_count = rate_limit(p)
        /\ prov[p].last_reset > 0
        /\ prov[p].daily_request_count = 2 * rate_limit(p)
        /\ prov[p].daily_request_count < daily_limit(p)

-----------------------------------------------------------------------------
(* C11: a get_quote with prefer_realtime=true is never answered from the   *)
(* quote cache: it calls a provider in the run that starts it, also when a *)
(* fresh entry of the ticker is cached; when it returns a quote, the       *)
(* ticker's cache entry is that quote, stamped now; and a get_quote with   *)
(* prefer_realtime=false that starts while the entry is younger than the   *)
(* TTL returns the entry's quote and calls no provider.                    *)
C11_RealtimeBypassesCacheAndRefreshes ==
    [][ \A c \in DOMAIN calls :
          LET f == calls'[c] IN
          /\ (Started(c) /\ f.op = "quote" /\ f.prefer)
                => ~f.hit /\ f.called # <<>>
          /\ (Completed(c) /\ f.op = "quote" /\ f.prefer /\ f.result # Absent)
                => /\ f.key \in DOMAIN quote_cache'
                   /\ quote_cache'[f.key].data = f.result[1]
                   /\ quote_cache'[f.key].timestamp = now
                   /\ quote_cache'[f.key].source = f.result[1].source
          /\ ( /\ Started(c) /\ f.op = "quote" /\ ~f.prefer
               /\ f.key \in DOMAIN quote_cache
               /\ now - quote_cache[f.key].timestamp < QUOTE_CACHE_TTL )
                => /\ f.pc = "done" /\ f.called = <<>>
                   /\ f.result = Some(quote_cache[f.key].data) ]_vars

\* a realtime call is waiting for Finnhub while a fresh entry of its ticker,
\* fetched from Yahoo by the call before it, is cached
C11_Witness ==
    \E c \in DOMAIN calls :
        /\ calls[c].op = "quote" /\ calls[c].prefer /\ calls[c].pc = "net"
        /\ calls[c].called = <<"finnhub">>
        /\ calls[c].key \in DOMAIN quote_cache
        /\ quote_cache[calls[c].key].source = "yahoo"
        /\ now - quote_cache[calls[c].key].timestamp < QUOTE_CACHE_TTL

-----------------------------------------------------------------------------
(* The collector's claims, over SpecCol *)

AliveTasks == { k \in 1..Len(tasks) : Alive(k) }

\* C5: when collect_prices has run twice on one calendar day for a held
\* ticker and got a quote both times, there is exactly one PriceHistory row
\* for (ticker, day); its high and low are the extremes of the two quotes
\* and its close is the price of the second
C5_TwoRunsLeaveOneRecord ==
    \A key \in DOMAIN save_log :
        (save_log[key].n = 2 /\ save_log[key].kinds = {"collect_prices"}) =>
            \E r \in price_history :
                /\ r.ticker = key[1] /\ r.date = key[2]
                /\ \A q \in price_history :
                        (q.ticker = r.ticker /\ q.date = r.date) => q = r
                /\ r.high = save_log[key].high
                /\ r.low = save_log[key].low
                /\ r.close = save_log[key].price

\* C6: the price history never holds two rows with the same ticker and the
\* same calendar date, whatever scheduled passes, manual collect_prices calls
\* and collect_single calls have run and however they interleave
C6_OneRecordPerTickerDate ==
    \A r, q \in price_history :
        (r.ticker = q.ticker /\ r.date = q.date) => r = q

\* _save_price has been called more than once for one (ticker, date), from a
\* collect_prices pass and from collect_single
C6_Witness ==
    \E key \in DOMAIN save_log :
        /\ save_log[key].n >= 2
        /\ save_log[key].kinds = {"collect_prices", "collect_single"}

\* C7: a stop() that starts sets is_running to False and requests the
\* cancellation of the live task; a stop() that has ended (returned or raised)
\* ended after the task it awaited had ended, and a task that has ended takes
\* no further step, so every later _save_price is the step of another coroutine
C7_StopReturnsAfterTaskEnded ==
    [][ /\ \A s \in StopCallers :
            /\ (stops'[s] # stops[s] /\ stops[s].pc # "awaiting") =>
                    /\ ~is_running'
                    /\ (task_ref # 0 /\ Alive(task_ref)) => tasks'[task_ref].cancel
            /\ (stops'[s].pc \in {"returned", "raised"} /\ stops'[s].task # 0) =>
                    tasks'[stops'[s].task].pc \in Terminal
        /\ \A k \in 1..Len(tasks) : ~Alive(k) => tasks'[k] = tasks[k]
        /\ (save_log' # save_log \/ price_history' # price_history) =>
                \/ manual' # manual \/ (ops' # ops /\ tasks' = tasks)
                \/ \E k \in AliveTasks : tasks'[k] # tasks[k] /\ ~tasks[k].cancel
      ]_vars

\* stop() has returned after it cancelled the task in the middle of a pass
C7_Witness ==
    \E s \in StopCallers :
        /\ stops[s].pc = "returned"
        /\ stops[s].found = "pass"
        /\ stops[s].task # 0
        /\ tasks[stops[s].task].pc \in Terminal

\* C8: no step taken while is_running holds creates a task or replaces the
\* task reference, and as long as no start() has run during a suspended
\* stop(), at most one scheduler task is alive
C8_StartWhileRunningIsNoOp ==
    [][ /\ is_running => (Len(tasks') = Len(tasks) /\ task_ref' = task_ref)
        /\ (\A k \in 1..Len(tasks') : ~tasks'[k].during_stop) =>
                Cardinality({ k \in 1..Len(tasks') : tasks'[k].pc \notin Terminal }) <= 1
      ]_vars

\* the collector runs again after a completed stop(): the second task is the
\* only one alive, and is_running holds
C8_Witness ==
    /\ is_running
    /\ Len(tasks) = 2
    /\ ~Alive(1) /\ Alive(2)
    /\ ~tasks[2].during_stop
    /\ \A s \in StopCallers : stops[s].pc = "returned"

\* C9: a scheduler task never ends with the error of one of its passes: a
\* task that has ended with an error had been cancelled
C9_PassErrorKeepsTaskAlive ==
    \A k \in 1..Len(tasks) : tasks[k].pc = "failed" => tasks[k].cancel

-----------------------------------------------------------------------------
(* Daily quota and provider status, over SpecDay and SpecRate *)

\* the provider has used up its per-day cap
DailyCapUsed(p) ==
    daily_limit(p) # 0 /\ prov[p].daily_request_count >= daily_limit(p)

(* C12: when a provider with an API key whose per-day cap is used up is    *)
(* called on a later calendar day than its last reset, however long it was *)
(* idle, the call sets the per-day counter to 0, and the request is sent   *)
(* unless the per-minute cap of the running window refuses it.             *)
C12_NewDayResetsDailyCount ==
    [][ \A d \in DOMAIN direct :
          LET p == direct'[d].p IN
          ( /\ DirectStarted(d) /\ p # "yahoo" /\ prov[p].api_key
            /\ DailyCapUsed(p)
            /\ Date(now) > Date(prov[p].last_reset) )
            => /\ prov'[p].daily_request_count = 0
               /\ ( ~(rate_limit(p) # 0 /\ prov'[p].request_count >= rate_limit(p))
                        => direct'[d].sent ) ]_vars

\* the per-minute cap is used up in the window that is still running
MinuteCapUsed(p) ==
    /\ rate_limit(p) # 0 /\ prov[p].request_count >= rate_limit(p)
    /\ now - prov[p].last_reset <= SecondsPerMinute

(* C13: a call of get_quote, get_info or get_historical on a provider with *)
(* an API key whose per-minute cap is used up in the running window, or    *)
(* whose per-day cap is used up on the day of its last reset, sends no     *)
(* request; and a call that sends no request returns absent at once and    *)
(* leaves last_error as it was and both counters as they were, except that *)
(* a counter whose window reset is due is set to 0.                        *)
C13_RefusedCallRecordsNothing ==
    [][ \A d \in DOMAIN direct :
          LET p == direct'[d].p
              f == direct'[d]
          IN  (DirectStarted(d) /\ p # "yahoo" /\ prov[p].api_key)
              => /\ ( \/ MinuteCapUsed(p)
                      \/ DailyCapUsed(p) /\ Date(now) = Date(prov[p].last_reset) )
                        => ~f.sent
                 /\ ~f.sent
                        => /\ f.pc = "done" /\ f.result = Absent
                           /\ prov'[p].last_error = prov[p].last_error
                           /\ prov'[p].api_key = prov[p].api_key
                           /\ prov'[p].is_available = prov[p].is_available
                           /\ prov'[p].request_count \in {prov[p].request_count, 0}
                           /\ prov'[p].daily_request_count \in {prov[p].daily_request_count, 0}
                           /\ (now - prov[p].last_reset <= SecondsPerMinute)
                                => /\ prov'[p].request_count = prov[p].request_count
                                   /\ prov'[p].last_reset = prov[p].last_reset
                           /\ (Date(now) = Date(prov[p].last_reset))
                                => prov'[p].daily_request_count = prov[p].daily_request_count ]_vars

\* get_info has been refused by the full per-minute window, and the failure
\* recorded by an earlier call is still the provider's last error
C13_Witness ==
    \E d \in DOMAIN direct :
        LET p == direct[d].p IN
        /\ direct[d].pc = "done" /\ ~direct[d].sent /\ direct[d].op = "info"
        /\ p # "yahoo" /\ prov[p].api_key
        /\ MinuteCapUsed(p)
        /\ prov[p].last_error = "error"

\* _get_remaining_requests without the max(0, ...)
GetRemainingRequestsUnclamped(p, ps) ==
    IF rate_limit(p) # 0
    THEN Some(rate_limit(p) - ps.request_count)
    ELSE Absent

\* MarketDataProvider._get_remaining_requests
GetRemainingRequests(p, ps) ==
    IF rate_limit(p) # 0
    THEN Some(Max(0, rate_limit(p) - ps.request_count))
    ELSE Absent

\* MarketDataProvider._get_reset_time
GetResetTime(p, ps) ==
    IF rate_limit(p) # 0 THEN Some(ps.last_reset + SecondsPerMinute) ELSE Absent

\* MarketDataProvider.get_status
GetStatus(p, ps) ==
    [ name               |-> p,
      is_available       |-> ps.is_available,
      requests_remaining |-> GetRemainingRequests(p, ps),
      reset_time         |-> GetResetTime(p, ps),
      last_error         |-> ps.last_error ]

(* C14: after a provider with an API key has declined a call because a     *)
(* quota, per-minute or per-day, is used up, its get_status() reports      *)
(* requests_remaining = 0.                                                 *)
C14_DeclinedMeansZeroRemaining ==
    \A d \in DOMAIN direct :
        LET p == direct[d].p IN
        (direct[d].pc = "done" /\ ~direct[d].sent /\ p # "yahoo" /\ prov[p].api_key)
            => GetStatus(p, prov[p]).requests_remaining = Some(0)

-----------------------------------------------------------------------------
(* clear_cache, over Spec *)

\* the historical cache keys of ticker T
HistoricalKeysOf(T) == { HistoricalKey(T, p, i) : p \in Periods, i \in Intervals }

C17_ClearCacheKeepsOtherTickers ==
    [][ \A raw \in RawTickers :
          ClearCache(Some(raw))
            => LET T == Upper(raw) IN
               /\ \A k \in DOMAIN quote_cache \ {T} :
                    k \in DOMAIN quote_cache' /\ quote_cache'[k] = quote_cache[k]
               /\ \A k \in DOMAIN info_cache \ {T} :
                    k \in DOMAIN info_cache' /\ info_cache'[k] = info_cache[k]
               /\ \A k \in DOMAIN historical_cache \ HistoricalKeysOf(T) :
                    /\ k \in DOMAIN historical_cache'
                    /\ historical_cache'[k] = historical_cache[k] ]_vars

-----------------------------------------------------------------------------
(* get_historical, over SpecHist *)

\* the requests get_historical can be given
HistRequests ==
    { <<Upper(raw), period, interval>> :
        raw \in RawTickers, period \in HistPeriods, interval \in HistIntervals }

(* C18: get_historical keeps one cache entry per (upper-cased ticker,       *)
(* period, interval): requests that differ in one of the three have         *)
(* different keys; a call reads and writes no entry but the one of its own  *)
(* key, and touches neither the quote nor the info cache; a hit returns the *)
(* bars of its own entry; and a call that every provider failed returns    *)
(* the empty sequence and leaves the historical cache as it was.           *)
C18_HistoricalCachePerRequest ==
    [][ /\ \A r1, r2 \in HistRequests :
            HistoricalKey(r1[1], r1[2], r1[3]) = HistoricalKey(r2[1], r2[2], r2[3])
                => r1 = r2
        /\ \A c \in DOMAIN calls :
            LET f == calls'[c] IN
            (Ran(c) /\ f.op = "historical")
            => /\ f.key = HistoricalKey(f.ticker, f.period, f.interval)
               /\ quote_cache' = quote_cache /\ info_cache' = info_cache
               /\ \A k \in (DOMAIN historical_cache \cup DOMAIN historical_cache') \ {f.key} :
                    /\ k \in DOMAIN historical_cache /\ k \in DOMAIN historical_cache'
                    /\ historical_cache'[k] = historical_cache[k]
               /\ (Started(c) /\ f.hit)
                    => /\ f.key \in DOMAIN historical_cache
                       /\ f.result = historical_cache[f.key].data
                       /\ historical_cache' = historical_cache
               /\ (Started(c) /\ f.key \notin DOMAIN historical_cache) => ~f.hit
               /\ f.result \in Seq(UNION { Range(b) : b \in BarPayloads })
               /\ (Completed(c) /\ ~f.hit /\ f.result = <<>>)
                    => /\ historical_cache' = historical_cache
                       /\ \A q \in ProviderNames :
                            prov'[q].is_available => q \in Range(f.called)
               /\ (Completed(c) /\ ~f.hit /\ f.result # <<>>)
                    => /\ f.key \in DOMAIN historical_cache'
                       /\ historical_cache'[f.key].data = f.result ]_vars

\* a request for one period of a ticker was answered while the entry of
\* another period of the same ticker is cached, and both entries are kept
C18_Witness ==
    \E c \in DOMAIN calls :
        /\ calls[c].op = "historical" /\ calls[c].pc = "done" /\ ~calls[c].hit
        /\ calls[c].result # <<>>
        /\ calls[c].key = HistoricalKey(<<"A">>, <<"1","d">>, <<"1","d">>)
        /\ calls[c].key \in DOMAIN historical_cache
        /\ HistoricalKey(<<"A">>, <<"1","y">>, <<"1","d">>) \in DOMAIN historical_cache

-----------------------------------------------------------------------------
(* Expiry, over SpecTtl *)

\* the cache an operation reads, before the step
CacheNow(op) ==
    CASE op = "quote"      -> quote_cache
      [] op = "info"       -> info_cache
      [] op = "historical" -> historical_cache

(* C19: a read operation that does not ask for realtime data is served     *)
(* from its cache exactly when the cache holds an entry of its key whose   *)
(* age, now - timestamp, is strictly less than the TTL of the cache (quote *)
(* 60 s, info 3600 s, historical 300 s): at an age equal to the TTL or     *)
(* greater the call is a miss and calls a provider.  Entries are not       *)
(* removed by the passing of time: a step of the clock changes no cache.   *)
C19_StrictTtl ==
    [][ /\ QUOTE_CACHE_TTL = 60 /\ INFO_CACHE_TTL = 3600 /\ HISTORICAL_CACHE_TTL = 300
        /\ (now' # now)
                => /\ quote_cache' = quote_cache /\ info_cache' = info_cache
                   /\ historical_cache' = historical_cache
        /\ \A c \in DOMAIN calls :
            LET f     == calls'[c]
                cache == CacheNow(f.op)
                fresh == /\ f.key \in DOMAIN cache
                         /\ now - cache[f.key].timestamp < TTL(f.op)
            IN  (Started(c) /\ ~f.prefer)
                => /\ f.hit <=> fresh
                   /\ f.hit => /\ f.called = <<>> /\ f.pc = "done"
                               /\ f.result = CacheHitValue(f.op, cache[f.key])
                   /\ ~fresh => f.called # <<>> ]_vars

\* get_info at the second the entry of its ticker, cached at 0, is 3600 s
\* old: a miss, every provider called has failed, the old entry is still there
C19_Witness ==
    \E c \in DOMAIN calls :
        /\ calls[c].op = "info" /\ calls[c].pc = "done" /\ ~calls[c].hit
        /\ calls[c].called # <<>> /\ calls[c].result = Absent
        /\ calls[c].key \in DOMAIN info_cache
        /\ now = INFO_CACHE_TTL
        /\ now - info_cache[calls[c].key].timestamp = INFO_CACHE_TTL

-----------------------------------------------------------------------------
(* search and get_multiple_quotes, over SpecBatch *)

\* a provider after p in priority order is available
HasNextCandidate(p) ==
    \E q \in ProviderNames : prov[q].is_available /\ priority(q) > priority(p)

(* C15: no get_quote, get_info, get_historical, search or                  *)
(* get_multiple_quotes coroutine ends with an exception.  A provider whose *)
(* operation raised was one the call had tried, and the call went on to    *)
(* the next available provider if there is one; a call that returned       *)
(* without a result (absent, or the empty list for get_historical and      *)
(* search) and without a cache hit has tried every available provider.     *)
C15_NoExceptionEscapes ==
    /\ \A b \in DOMAIN batches : batches[b].pc \in {"idle", "gather", "done"}
    /\ \A c \in DOMAIN calls :
        LET f == calls[c] IN
        /\ f.pc \in {"idle", "net", "done"}
        /\ Range(f.warned) \subseteq Range(f.called)
        /\ \A p \in Range(f.warned) :
                HasNextCandidate(p)
                    => \E q \in Range(f.called) : priority(q) > priority(p)
        /\ (f.pc = "net") => Last(f.called) \notin Range(f.warned)
        /\ (f.pc = "done" /\ ~f.hit /\ f.result = <<>>)
                => \A q \in ProviderNames : prov[q].is_available => q \in Range(f.called)

\* search: Yahoo raised, Finnhub raised too, and the call returned the
\* empty list
C15_Witness ==
    \E c \in DOMAIN calls :
        /\ calls[c].op = "search" /\ calls[c].pc = "done"
        /\ calls[c].warned = <<"yahoo", "finnhub">>
        /\ calls[c].called = <<"yahoo", "finnhub">>
        /\ calls[c].result = <<>>

\* the lookups of the batch of b for the upper-cased ticker T that
\* returned a quote
QuotedLookups(b, T) ==
    { i \in 1..Len(batches[b].tickers) :
        /\ Upper(batches[b].tickers[i]) = T
        /\ calls[BatchSlots[i]].pc = "done"
        /\ calls[BatchSlots[i]].result # Absent }

(* C20: get_multiple_quotes never ends with an exception; when it has       *)
(* returned, every get_quote lookup of its tickers has finished, the keys   *)
(* of the mapping are upper-cased input tickers, the mapping has key T      *)
(* exactly when a lookup for T returned a quote, and the value under T is   *)
(* the quote of such a lookup; a ticker whose lookup returned absent or     *)
(* raised has no key, and the other tickers keep theirs.                    *)
C20_BatchMapping ==
    \A b \in DOMAIN batches :
        LET f == batches[b] IN
        /\ f.pc \in {"idle", "gather", "done"}
        /\ (f.pc = "done")
            => /\ f.started = Len(f.tickers)
               /\ \A i \in 1..Len(f.tickers) :
                    /\ calls[BatchSlots[i]].pc = "done"
                    /\ calls[BatchSlots[i]].op = "quote"
                    /\ calls[BatchSlots[i]].key = Upper(f.tickers[i])
               /\ DOMAIN f.result \subseteq { Upper(f.tickers[i]) : i \in 1..Len(f.tickers) }
               /\ \A i \in 1..Len(f.tickers) :
                    LET T == Upper(f.tickers[i]) IN
                    /\ T \in DOMAIN f.result <=> QuotedLookups(b, T) # {}
                    /\ T \in DOMAIN f.result
                        => \E j \in QuotedLookups(b, T) :
                                f.result[T] = calls[BatchSlots[j]].result[1]

\* the batch for 'a' and 'AB' has returned: the lookup of 'AB' got nothing,
\* a provider having raised on the way, and the mapping holds 'A' alone
C20_Witness ==
    \E b \in DOMAIN batches :
        /\ batches[b].pc = "done"
        /\ batches[b].tickers = << <<"a">>, <<"A", "B">> >>
        /\ DOMAIN batches[b].result = { <<"A">> }
        /\ calls[BatchSlots[2]].warned # <<>>
        /\ calls[BatchSlots[2]].result = Absent

\* what a run of collect_prices() that has dealt with the first i held
\* tickers leaves: the next ticker's get_quote pending, or the pass closed
\* with every held ticker asked for once, in the order of the query
PassMovedOn(m, i) ==
    LET T == HeldTickers(holdings)
        f == manual'[m]
    IN  IF i < Len(T)
        THEN /\ f.pst = "net" /\ f.i = i + 1 /\ f.tickers = T
             /\ f.asked = SubSeq(T, 1, i + 1)
             /\ f.call.ticker = Upper(T[i + 1])
        ELSE /\ f.pst \in {"done", "raised"}
             /\ f.asked = T

\* the number of _save_price calls logged for a (ticker, date)
SaveCount(log, key) == IF key \in DOMAIN log THEN log[key].n ELSE 0

\* C21: a collect_prices() pass asks get_quote for every held ticker exactly
\* once, in the order of the holdings query; whatever the outcome for one
\* ticker (no quote from any provider, a vendor error, a quote followed by a
\* _save_price that fails), the pass goes on with the next ticker and closes
\* only after the last one; _save_price is called once for the ticker whose
\* quote was returned and for no other ticker
C21_PassSkipsFailures ==
    [][ \A m \in ManualCallers, E \in Envs(HeldSet) :
         /\ (ManualCollect(m, E) /\ E.open = "ok") =>
                /\ PassMovedOn(m, 0)
                /\ save_log' = save_log
         /\ \A resp \in RateResponses :
              (ManualNet(m, resp, E) /\ manual[m].kind = "collect_prices") =>
                LET f == manual[m]
                    ticker == f.tickers[f.i]
                    got == resp.kind = "ok" \/ E.y[ticker].kind = "ok"
                IN  /\ PassMovedOn(m, f.i)
                    /\ DOMAIN save_log \subseteq DOMAIN save_log'
                    /\ \A key \in DOMAIN save_log' :
                         SaveCount(save_log', key) = SaveCount(save_log, key) +
                            (IF key = <<ticker, Today(now)>> /\ got THEN 1 ELSE 0)
      ]_vars

\* a pass has closed after no provider had a quote for its first ticker,
\* and _save_price was called for its second ticker only
C21_Witness ==
    \E m \in ManualCallers :
        /\ manual[m].pst = "done" /\ manual[m].kind = "collect_prices"
        /\ Len(manual[m].asked) = 2
        /\ DOMAIN save_log = { <<manual[m].asked[2], Today(now)>> }
        /\ prov["finnhub"].last_error = "error"

\* C22: a collect_single(ticker) that returns has called _save_price exactly
\* when get_quote returned a quote, and returns True exactly then; when it
\* returns True the price history holds a record for (ticker, today) whose
\* close is the quote's price, and when it returns False the price history is
\* as it was
C22_SingleSavesWhatItReports ==
    [][ \A m \in ManualCallers :
          ( /\ manual'[m] # manual[m]
            /\ manual'[m].kind = "collect_single"
            /\ manual'[m].pst = "done" ) =>
            LET ticker == manual'[m].asked[1]
                key == <<ticker, Today(now)>>
            IN  /\ manual'[m].ret <=> save_log' # save_log
                /\ IF manual'[m].ret
                   THEN \E r \in price_history' :
                            /\ r.ticker = ticker /\ r.date = Today(now)
                            /\ r.close = save_log'[key].price
                   ELSE price_history' = price_history
      ]_vars

-----------------------------------------------------------------------------
(* Unavailable providers, over SpecAvail: the four lookups of the Manager   *)
(* with a Tiingo key alone, or an Alpha Vantage key alone.                   *)
AvailKeyConfigs == { {"tiingo"}, {"alphavantage"} }

InitAvail ==
    /\ now = 0
    /\ \E keys \in AvailKeyConfigs : InitManager(keys)
    /\ InitCollector

NextAvail ==
    \/ \E c \in Callers, raw \in RateTickers, prefer \in BOOLEAN,
          y \in BatchResponses("quote") : GetQuote(c, raw, prefer, y)
    \/ \E c \in Callers, raw \in RateTickers, y \in BatchResponses("info") :
            GetInfo(c, raw, y)
    \/ \E c \in Callers, raw \in RateTickers, period \in Periods, interval \in Intervals,
          y \in BatchResponses("historical") :
            GetHistorical(c, raw, period, interval, y)
    \/ \E c \in Callers, query \in Queries, y \in BatchResponses("search") :
            Search(c, query, y)
    \/ \E c \in Callers :
            \E resp \in BatchResponses("search"), y \in BatchResponses("search") :
                SearchReturn(c, resp, y)
    \/ \E c \in Callers :
            /\ calls[c].op # "search"
            /\ \E resp \in BatchResponses(calls[c].op), y \in BatchResponses(calls[c].op) :
                    NetReturn(c, resp, y)

SpecAvail == InitAvail /\ [][NextAvail]_vars

\* C23: every provider a get_quote (with either prefer_realtime value),
\* get_info, get_historical or search has called is one whose is_available
\* flag is set; a provider without the flag is passed over and stays as it
\* was constructed, the available providers behind it are tried in the
\* call's order, and a call that ends without a result has tried them all
C23_UnavailableNeverCalled ==
    /\ \A p \in ProviderNames :
            ~prov[p].is_available => prov[p] = NewProvider(p, FALSE, 0)
    /\ \A c \in DOMAIN calls :
        LET f == calls[c] IN
            /\ \A p \in Range(f.called) : prov[p].is_available
            /\ CalledInOrder(f)
            /\ (f.pc = "done" /\ ~f.hit /\ f.result = Absent) => Exhausted(f)

\* a get_quote that prefers realtime data has passed over Finnhub, which has
\* no key, and has called Tiingo and then Yahoo
C23_Witness ==
    \E c \in DOMAIN calls :
        /\ calls[c].op = "quote" /\ calls[c].prefer
        /\ calls[c].called = <<"tiingo", "yahoo">>
        /\ ~prov["finnhub"].is_available

-----------------------------------------------------------------------------
(* The recurring task under a fair event loop, over SpecLive: a Finnhub key *)
(* and one held ticker, or no key and two held tickers; start(), stop() and *)
(* the task's own steps.  The event loop runs every coroutine that is ready *)
(* (a created task, a sleep that is over, a response that has arrived, a    *)
(* cancellation to deliver), every request ends with a response or a        *)
(* timeout, and the clock reaches every pending deadline.                   *)
LiveConfigs == { cfg \in ColConfigs : cfg.rows # <<>> }

InitLive ==
    /\ now = 0
    /\ \E cfg \in LiveConfigs : InitManager(cfg.keys) /\ InitCollectorWith(cfg.rows)

\* task k starts a collect_prices(): the immediate pass, or the pass after a
\* sleep that is over
PassStart(k) ==
    /\ k <= Len(tasks)
    /\ \/ \E E \in Envs(HeldSet) : TaskBegin(k, E)
       \/ \E E \in Envs(HeldSet) : TaskWake(k, E)

\* the enabling condition of PassStart(k)
PassReady(k) ==
    /\ k <= Len(tasks) /\ ~tasks[k].cancel
    /\ \/ tasks[k].pc = "created"
       \/ tasks[k].pc = "sleep" /\ now >= tasks[k].wake

\* the other steps of task k: a response arrives, the retry sleep is over,
\* the cancellation is delivered
TaskStep(k) ==
    /\ k <= Len(tasks)
    /\ \/ \E resp \in ColResponses, E \in Envs(HeldSet) : TaskNet(k, resp, E)
       \/ TaskCooldownOver(k)
       \/ \E close_ok \in BOOLEAN : TaskCancelled(k, close_ok)

TimerStep == \E d \in ColSteps : Tick(d, MaxColTime)

NextLive ==
    \/ Start
    \/ \E s \in StopCallers : Stop(s)
    \/ \E s \in StopCallers : StopResume(s)
    \/ \E k \in 1..MaxColOps : PassStart(k)
    \/ \E k \in 1..MaxColOps : TaskStep(k)
    \/ TimerStep

\* weak fairness of PassStart(k), with its enabling condition written out
PassFair(k) == []<>(~PassReady(k)) \/ []<><<PassStart(k)>>_vars

SpecLive ==
    /\ InitLive /\ [][NextLive]_vars
    /\ \A k \in 1..MaxColOps : PassFair(k) /\ WF_vars(TaskStep(k))
    /\ WF_vars(TimerStep)
    /\ \A s \in StopCallers : WF_vars(StopResume(s))

\* the frame of task k, for any k
TaskAt(k) == IF k <= Len(tasks) THEN tasks[k] ELSE [NewTask(FALSE) EXCEPT !.pc = "none"]

\* task k is the collector's task, the collector is Running, and the task
\* has not been cancelled
RunningTask(k) ==
    /\ k <= Len(tasks) /\ task_ref = k /\ is_running /\ ~TaskAt(k).cancel

\* task k is about to start a pass, is in one, or sleeps towards the next
PassAhead(k) == TaskAt(k).pc \in {"created", "pass", "sleep", "cooldown"}

\* task k sleeps towards a pass due within the time explored
PassDue(k) == TaskAt(k).pc = "sleep" /\ TaskAt(k).wake <= MaxColTime

\* C24: a task created by start() begins its first pass before any sleep; a
\* task sleeping towards its next pass begins that pass unless it is
\* cancelled; and while the collector is Running with its task not
\* cancelled, a next pass always lies ahead
C24_RunningKeepsCollecting ==
    \A k \in 1..MaxColOps :
        /\ (TaskAt(k).pc = "created") ~> (TaskAt(k).pc # "created")
        /\ PassDue(k) ~> (TaskAt(k).cancel \/ ~PassDue(k))
        /\ RunningTask(k) ~> (~RunningTask(k) \/ PassAhead(k))

-----------------------------------------------------------------------------
(* search, over SpecBatch *)

\* C25: search(query) calls the available providers in ascending priority
\* order, starting with the first whatever the caches hold; the first
\* non-empty list a provider answers with is returned in the same run and
\* no further provider is called; a search that returns the empty list has
\* called every available provider; and no run of a search changes the
\* quote, info or historical cache
C25_SearchFirstNonEmpty ==
    [][ \A c \in Callers :
         /\ (Ran(c) /\ calls'[c].op = "search") =>
                /\ quote_cache' = quote_cache
                /\ info_cache' = info_cache
                /\ historical_cache' = historical_cache
                /\ ~calls'[c].hit
                /\ calls'[c].order = providers
                /\ CalledInOrder(calls'[c])
                /\ (calls'[c].pc = "done" /\ calls'[c].result = <<>>) =>
                        Exhausted(calls'[c])
         /\ \A query \in Queries, y \in BatchResponses("search") :
              (Search(c, query, y) /\ y.kind = "ok") =>
                /\ calls'[c].pc = "done"
                /\ calls'[c].called = <<"yahoo">>
                /\ calls'[c].result = SearchResult("yahoo", query, y.data)
         /\ \A resp \in BatchResponses("search"), y \in BatchResponses("search") :
              (SearchReturn(c, resp, y) /\ resp.kind = "ok") =>
                /\ calls'[c].pc = "done"
                /\ calls'[c].called = calls[c].called
                /\ calls'[c].result = resp.data
      ]_vars

\* a search has returned Finnhub's list after Yahoo had none, while the
\* info cache held an entry
C25_Witness ==
    \E c \in Callers :
        /\ calls[c].op = "search" /\ calls[c].pc = "done"
        /\ calls[c].called = <<"yahoo", "finnhub">>
        /\ calls[c].result # <<>>
        /\ info_cache # <<>>

-----------------------------------------------------------------------------
(* get_info, over SpecTtl *)

\* C26: a get_info(T) that starts while the info cache holds an entry of T
\* younger than 3600 s returns that entry's info at once, with no provider
\* called and nothing changed; otherwise it is a miss, whatever the quote and
\* historical caches hold, and it tries the providers in plain priority
\* order, storing the info it obtains under T in the info cache; no run of a
\* get_info changes the quote cache or the historical cache
C26_InfoCacheThenFallback ==
    [][ /\ INFO_CACHE_TTL = 3600
        /\ \A c \in DOMAIN calls :
            LET f == calls'[c]
                fresh == /\ f.key \in DOMAIN info_cache
                         /\ now - info_cache[f.key].timestamp < INFO_CACHE_TTL
            IN  /\ (Ran(c) /\ f.op = "info") =>
                        /\ quote_cache' = quote_cache
                        /\ historical_cache' = historical_cache
                        /\ ~f.prefer
                /\ (Started(c) /\ f.op = "info" /\ fresh) =>
                        /\ f.pc = "done" /\ f.hit /\ f.called = <<>>
                        /\ f.result = Some(info_cache[f.key].data)
                        /\ prov' = prov
                        /\ info_cache' = info_cache
                /\ (Started(c) /\ f.op = "info" /\ ~fresh) =>
                        /\ ~f.hit
                        /\ f.order = providers
                        /\ f.called # <<>> /\ f.called[1] = providers[1]
                /\ (Ran(c) /\ f.op = "info" /\ ~f.hit) =>
                        /\ CalledInOrder(f)
                        /\ IF f.pc = "done" /\ f.result # Absent
                           THEN info_cache' =
                                    DictPut(info_cache, f.key,
                                            [data |-> f.result[1], timestamp |-> now,
                                             source |-> Last(f.called)])
                           ELSE info_cache' = info_cache
      ]_vars

\* a get_info has been served from an entry 3599 s old, an age at which an
\* entry of the quote cache or of the historical cache has expired
C26_Witness ==
    \E c \in DOMAIN calls :
        /\ calls[c].op = "info" /\ calls[c].pc = "done" /\ calls[c].hit
        /\ now - info_cache[calls[c].key].timestamp = INFO_CACHE_TTL - 1
        /\ now - info_cache[calls[c].key].timestamp >= HISTORICAL_CACHE_TTL

-----------------------------------------------------------------------------
(* get_history, over SpecStore *)

-----------------------------------------------------------------------------
(* The provider list, over SpecAvail *)

\* MarketDataManager.get_provider_status
GetProviderStatus ==
    [ i \in 1..Len(providers) |-> GetStatus(providers[i], prov[providers[i]]) ]

\* position of a provider in the list of the constructor
RegistrationIndex(p) == CHOOSE i \in 1..Len(Registration) : Registration[i] = p

\* C28: the Manager's provider list holds every registered provider once,
\* in ascending order of priority and, among equal priorities, in the order
\* of registration; it is the list the constructor sorted, whatever calls
\* have run since, those that prefer realtime data included; and
\* get_provider_status() returns the status of each provider of the list, in
\* the order of the list
C28_ProviderListFixed ==
    /\ providers = StableSort(Registration, PriorityKey)
    /\ Len(providers) = Len(Registration)
    /\ Range(providers) = ProviderNames
    /\ \A i, j \in 1..Len(providers) :
         i < j =>
            \/ priority(providers[i]) < priority(providers[j])
            \/ /\ priority(providers[i]) = priority(providers[j])
               /\ RegistrationIndex(providers[i]) < RegistrationIndex(providers[j])
    /\ Len(GetProviderStatus) = Len(providers)
    /\ \A i \in 1..Len(providers) :
         /\ GetProviderStatus[i].name = providers[i]
         /\ GetProviderStatus[i] = GetStatus(providers[i], prov[providers[i]])

\* a get_quote that prefers realtime data has run over its reordered copy,
\* in which Yahoo comes last
C28_Witness ==
    \E c \in DOMAIN calls :
        /\ calls[c].prefer /\ calls[c].pc = "done"
        /\ calls[c].order # providers
        /\ Last(calls[c].order) = "yahoo"
        /\ Last(calls[c].called) = "yahoo"

-----------------------------------------------------------------------------
(* Request counting, over SpecBatch *)

\* C29: when the vendor's answer to the request a provider operation has
\* sent arrives, the provider's request_count and daily_request_count each
\* go up by one if the answer is a successful one with data, and stay as
\* they were if the answer is an HTTP or parse error or carries no data
C29_OnlySuccessCounts ==
    [][ \A c \in DOMAIN calls :
          calls[c].pc = "net" =>
            \A resp \in BatchResponses(calls[c].op), y \in BatchResponses(calls[c].op) :
              (IF calls[c].op = "search"
               THEN SearchReturn(c, resp, y)
               ELSE NetReturn(c, resp, y)) =>
                LET p   == calls[c].order[calls[c].idx]
                    inc == IF resp.kind = "ok" THEN 1 ELSE 0
                IN  /\ prov'[p].request_count = prov[p].request_count + inc
                    /\ prov'[p].daily_request_count = prov[p].daily_request_count + inc
      ]_vars

-----------------------------------------------------------------------------
(* Letter case, over SpecCase: get_multiple_quotes over lists that name one *)
(* symbol in two letter cases, get_info and get_historical in either case,  *)
(* and clear_cache in either case, with a Tiingo key.                        *)
CaseTickers == { <<"a">>, <<"A">> }

InitCase ==
    /\ now = 0
    /\ InitManagerFor({"tiingo"}, Callers \cup Range(BatchSlots))
    /\ InitCollector

NextCase ==
    \/ \E b \in BatchCallers, tickers \in BatchTickers : GetMultipleQuotes(b, tickers)
    \/ \E b \in BatchCallers, y \in RateResponses : TaskStart(b, y)
    \/ \E c \in Range(BatchSlots), resp \in RateResponses, y \in RateResponses :
            NetReturn(c, resp, y)
    \/ \E b \in BatchCallers : BatchJoin(b)
    \/ \E c \in Callers, raw \in CaseTickers, y \in Responses("info") : GetInfo(c, raw, y)
    \/ \E c \in Callers, raw \in CaseTickers, period \in Periods, interval \in Intervals,
          y \in Responses("historical") :
            GetHistorical(c, raw, period, interval, y)
    \/ \E c \in Callers :
            \E resp \in Responses(calls[c].op), y \in Responses(calls[c].op) :
                NetReturn(c, resp, y)
    \/ \E raw \in CaseTickers : ClearCache(Some(raw))
    \/ Tick(TickStep, MaxTime)

SpecCase == InitCase /\ [][NextCase]_vars

\* the quote cache holds an entry of key T younger than the TTL
FreshQuote(T) ==
    T \in DOMAIN quote_cache /\ now - quote_cache[T].timestamp < QUOTE_CACHE_TTL

\* C30: a get_quote, get_info or get_historical for a ticker given in any
\* letter case looks up the cache under the upper-cased symbol and asks the
\* providers for the upper-cased symbol, so every cache key is upper case
\* and a get_quote that starts while the quote cache holds a fresh entry of
\* the upper-cased symbol is served from it with no provider called, in
\* whatever case the entry's request and this one were written; a quote
\* returned carries the upper-cased symbol as its ticker; and
\* clear_cache(T) removes the entries of the upper-cased symbol
C30_UppercaseSharing ==
    [][ /\ \A k \in DOMAIN quote_cache' \cup DOMAIN info_cache' : k = Upper(k)
        /\ \A k \in DOMAIN historical_cache' :
                \E raw \in CaseTickers : k \in HistoricalKeysOf(Upper(raw))
        /\ \A b \in BatchCallers, y \in RateResponses :
             TaskStart(b, y) =>
                LET i == batches[b].started + 1
                    T == Upper(batches[b].tickers[i])
                    f == calls'[BatchSlots[i]]
                IN  /\ f.key = T /\ f.ticker = T
                    /\ f.hit <=> FreshQuote(T)
                    /\ f.hit => /\ f.called = <<>> /\ prov' = prov
                                /\ f.result = Some(quote_cache[T].data)
        /\ \A c \in Callers, raw \in CaseTickers, y \in Responses("info") :
             GetInfo(c, raw, y) => calls'[c].key = Upper(raw) /\ calls'[c].ticker = Upper(raw)
        /\ \A c \in DOMAIN calls :
             (calls'[c].op \in {"quote", "info"} /\ calls'[c].pc = "done"
                /\ calls'[c].result # Absent) =>
                    /\ calls'[c].result[1].ticker = calls'[c].ticker
                    /\ calls'[c].ticker = Upper(calls'[c].ticker)
        /\ \A raw \in CaseTickers :
             ClearCache(Some(raw)) =>
                /\ Upper(raw) \notin DOMAIN quote_cache'
                /\ Upper(raw) \notin DOMAIN info_cache'
                /\ HistoricalKeysOf(Upper(raw)) \cap DOMAIN historical_cache' = {}
      ]_vars

\* get_multiple_quotes(['a', 'A']): the lookup of 'a' fetched the quote of
\* A from a provider, and the lookup of 'A' was served from that entry
C30_Witness ==
    \E b \in BatchCallers :
        /\ batches[b].tickers = << <<"a">>, <<"A">> >>
        /\ batches[b].started = 2
        /\ calls["g1"].pc = "done" /\ ~calls["g1"].hit /\ calls["g1"].called # <<>>
        /\ calls["g1"].result # Absent
        /\ calls["g1"].result[1].ticker = <<"A">>
        /\ calls["g2"].pc = "done" /\ calls["g2"].hit /\ calls["g2"].called = <<>>
        /\ calls["g2"].result = calls["g1"].result

-----------------------------------------------------------------------------
(* the tickers a pass asks for, over SpecHeld: Holding tables with no row,  *)
(* with sold-out rows only, and with held rows beside sold-out ones         *)

HeldConfigs ==
    { [ keys |-> {}, rows |-> <<>> ],
      [ keys |-> {"finnhub"},
        rows |-> << [ticker |-> <<"a">>, quantity |-> 0],
                    [ticker |-> <<"A", "B">>, quantity |-> 0] >> ],
      [ keys |-> {"finnhub"},
        rows |-> << [ticker |-> <<"a">>, quantity |-> 5],
                    [ticker |-> <<"A", "B">>, quantity |-> 0],
                    [ticker |-> <<"B">>, quantity |-> 2] >> ] }

InitHeld ==
    /\ now = 0
    /\ \E cfg \in HeldConfigs : InitManager(cfg.keys) /\ InitCollectorWith(cfg.rows)

NextHeld ==
    \/ Start
    \/ \E k \in 1..Len(tasks), E \in Envs(HeldSet) : TaskBegin(k, E)
    \/ \E k \in 1..Len(tasks), E \in Envs(HeldSet) : TaskWake(k, E)
    \/ \E k \in 1..Len(tasks), resp \in ColResponses, E \in Envs(HeldSet) : TaskNet(k, resp, E)
    \/ \E m \in ManualCallers, E \in Envs(HeldSet) : ManualCollect(m, E)
    \/ \E m \in ManualCallers, resp \in ColResponses :
            \E E \in Envs(Range(manual[m].tickers)) : ManualNet(m, resp, E)
    \/ \E d \in ColSteps : Tick(d, MaxColTime)

SpecHeld == InitHeld /\ [][NextHeld]_vars

\* the tickers of the Holding rows with a positive quantity
PositiveHoldings ==
    { holdings[i].ticker : i \in { j \in 1..Len(holdings) : holdings[j].quantity > 0 } }

\* the frames of the collect_prices() coroutines: those called by hand and
\* those of the scheduler's tasks
PassFrames ==
    { manual[m] : m \in ManualCallers } \cup { tasks[k].pass : k \in 1..Len(tasks) }

\* C31: collect_prices(), in the scheduler's task or called by hand, asks
\* get_quote only for tickers whose Holding row has a positive quantity and
\* always with prefer_realtime=True: every frame of a pass lists held tickers
\* only, its get_quote call is a realtime call for the ticker asked last, and
\* every cached quote and every _save_price is for a held ticker; when no
\* ticker is held the passes call no provider (the providers and the quote
\* cache stay as constructed) and write nothing to the price history
C31_PassAsksHeldTickersOnly ==
    /\ \A f \in PassFrames :
            /\ Range(f.asked) \subseteq PositiveHoldings
            /\ f.call.pc # "idle" =>
                    /\ f.call.op = "quote" /\ f.call.prefer
                    /\ f.asked # <<>>
                    /\ f.call.ticker = Upper(f.asked[Len(f.asked)])
    /\ \A key \in DOMAIN save_log : key[1] \in PositiveHoldings
    /\ \A key \in DOMAIN quote_cache : \E T \in PositiveHoldings : key = Upper(T)
    /\ PositiveHoldings = {} =>
            /\ \A f \in PassFrames : f.asked = <<>> /\ f.call = IdleCall
            /\ \A p \in ProviderNames : prov[p] = NewProvider(p, prov[p].api_key, 0)
            /\ quote_cache = <<>>
            /\ price_history = {} /\ save_log = <<>>

\* a pass over three Holding rows, one of them sold out, has ended after it
\* asked for the two held tickers and skipped the sold-out one
C31_Witness ==
    \E m \in ManualCallers :
        /\ Len(holdings) = 3
        /\ manual[m].pst = "done"
        /\ manual[m].asked = << <<"a">>, <<"B">> >>
        /\ DOMAIN save_log # {}

-----------------------------------------------------------------------------
(* Alpha Vantage's per-minute cap under a burst, over SpecBurst: one more   *)
(* client than the cap allows, each awaiting one get_quote of the provider, *)
(* all within the same second.  A call's _check_rate_limit and its          *)
(* _increment_request are two runs of the coroutine, with the HTTP request  *)
(* between them.                                                            *)

BurstCallers == 1..(AlphaVantageRateLimit + 1)

\* what the vendor answers to a request of the burst
BurstResponses == { r \in RateResponses : r.kind # "empty" }

InitBurst ==
    /\ now = 0
    /\ providers = StableSort(Registration, PriorityKey)
    /\ prov = [p \in ProviderNames |-> NewProvider(p, p = "alphavantage", now)]
    /\ quote_cache = <<>>
    /\ info_cache = <<>>
    /\ historical_cache = <<>>
    /\ calls = [c \in Callers |-> IdleCall]
    /\ direct = [d \in BurstCallers |-> IdleDirect]
    /\ batches = [b \in BatchCallers |-> IdleBatch]
    /\ ops = 0
    /\ InitCollector

\* every client makes its one call
NextBurst ==
    \/ \E d \in BurstCallers, raw \in RateTickers, y \in BurstResponses :
            direct[d].pc = "idle" /\ ProviderCall(d, "alphavantage", "quote", raw, y)
    \/ \E d \in BurstCallers, resp \in BurstResponses : ProviderReturn(d, resp)

SpecBurst == InitBurst /\ [][NextBurst]_vars

\* C32: request_count of a provider with a per-minute cap never exceeds the
\* cap, also when several calls of the provider are in flight at once
C32_CountWithinCapUnderConcurrency ==
    \A p \in ProviderNames :
        rate_limit(p) # 0 => prov[p].request_count <= rate_limit(p)

\* the same clients one after the other: a client calls only when no request
\* is in flight; the vendor may fail or answer without data
NextQueue ==
    \/ \E d \in BurstCallers, raw \in RateTickers, y \in RateResponses :
            /\ direct[d].pc = "idle"
            /\ \A e \in BurstCallers : direct[e].pc # "net"
            /\ ProviderCall(d, "alphavantage", "quote", raw, y)
    \/ \E d \in BurstCallers, resp \in RateResponses : ProviderReturn(d, resp)

SpecQueue == InitBurst /\ [][NextQueue]_vars

\* the clients whose request was sent to the vendor of p
Sent(p) == { d \in DOMAIN direct : direct[d].p = p /\ direct[d].sent }

\* C33: within one per-minute window a provider with a per-minute cap sends
\* at most rate_limit requests to its vendor, whatever their outcomes.  The
\* clock of SpecQueue stands still, so every request of a behaviour lies in
\* the window that began at construction
C33_AttemptsWithinCap ==
    \A p \in ProviderNames :
        rate_limit(p) # 0 /\ now - prov[p].last_reset <= SecondsPerMinute =>
            Cardinality(Sent(p)) <= rate_limit(p)

-----------------------------------------------------------------------------
(* start() and stop() interleaved, over SpecCol *)

\* C34: whenever a stop() call returns, is_running is False and no scheduler
\* task is alive, and at no time are two scheduler tasks alive at once,
\* whatever the interleaving of the start() and stop() calls
C34_StopLeavesNothingRunning ==
    [][ /\ \A s \in StopCallers :
            (stops'[s] # stops[s] /\ stops'[s].pc = "returned") =>
                /\ ~is_running'
                /\ \A k \in 1..Len(tasks') : tasks'[k].pc \in Terminal
        /\ Cardinality({ k \in 1..Len(tasks') : tasks'[k].pc \notin Terminal }) <= 1
      ]_vars

\* C35: the running flag and the task agree: while is_running holds, the
\* collector's task exists and has not ended, and once the task has ended,
\* for whatever reason, is_running is False
C35_FlagAndTaskAgree ==
    /\ is_running => (task_ref # 0 /\ Alive(task_ref))
    /\ (task_ref # 0 /\ ~Alive(task_ref)) => ~is_running

-----------------------------------------------------------------------------
(* concurrent get_quote calls and clear_cache, over SpecWriters: two       *)
(* clients, Finnhub and Tiingo with keys, so that two fetches of one key    *)
(* can be suspended at the same time and end with different providers       *)

WriterCallers == { "c1", "c2" }

InitWriters ==
    /\ now = 0
    /\ InitManagerFor({"finnhub", "tiingo"}, WriterCallers)
    /\ InitCollector

NextWriters ==
    \/ \E c \in WriterCallers, raw \in ColTickers, prefer \in BOOLEAN, y \in ColResponses :
            GetQuote(c, raw, prefer, y)
    \/ \E c \in WriterCallers, resp \in Responses("quote"), y \in ColResponses :
            NetReturn(c, resp, y)
    \/ \E raw \in ColTickers : ClearCache(Some(raw))
    \/ ClearCache(Absent)
    \/ Tick(TickStep, MaxTime)

SpecWriters == InitWriters /\ [][NextWriters]_vars

\* the get_quote of client c has ended in this step with a quote it fetched
\* from a provider
FetchedNow(c) ==
    /\ calls'[c] # calls[c]
    /\ calls'[c].pc = "done" /\ ~calls'[c].hit /\ calls'[c].result # Absent

\* C36: under any interleaving of concurrent get_quote calls and clear_cache
\* calls, every entry of the quote cache under key T holds a quote that an
\* available provider built for ticker T from a vendor payload, and the
\* entry's source is that provider's name; a get_quote that ends with a
\* fetched quote leaves exactly that quote in the cache, so of two fetches of
\* one key the one that ends last decides the entry; and the cache changes
\* only by such a write or by clear_cache, which only removes
C36_CacheHoldsLastFetched ==
    [][ /\ \A T \in DOMAIN quote_cache' :
            LET e == quote_cache'[T] IN
            /\ e.source \in ProviderNames /\ prov[e.source].is_available
            /\ e.data.source = e.source /\ e.data.ticker = T
            /\ \E d \in QuotePayloads : e.data = StockQuote(e.source, T, d, e.timestamp)
        /\ \A c \in WriterCallers :
            FetchedNow(c) =>
                DictGet(quote_cache', calls'[c].key) =
                    Some([ data      |-> calls'[c].result[1],
                           timestamp |-> now,
                           source    |-> calls'[c].result[1].source ])
        /\ \A T \in DOMAIN quote_cache' :
            (T \notin DOMAIN quote_cache \/ quote_cache'[T] # quote_cache[T]) =>
                \E c \in WriterCallers : FetchedNow(c) /\ calls'[c].key = T
      ]_vars

\* two fetches of one key were in flight together; the one that was started
\* first has ended last, with another provider and another quote than the
\* other, and the cache holds its quote
C36_Witness ==
    /\ calls["c1"].id = 1 /\ calls["c2"].id = 2
    /\ \A c \in WriterCallers :
            calls[c].pc = "done" /\ ~calls[c].hit /\ calls[c].result # Absent
    /\ calls["c1"].key = calls["c2"].key
    /\ calls["c1"].result[1].source # calls["c2"].result[1].source
    /\ calls["c1"].result[1].current_price # calls["c2"].result[1].current_price
    /\ DictGet(quote_cache, calls["c1"].key) # Absent
    /\ quote_cache[calls["c1"].key].data = calls["c1"].result[1]

-----------------------------------------------------------------------------
(* availability, over SpecRate: Alpha Vantage has a key, Finnhub has none, *)
(* and both are invoked directly, with failures and a full window          *)

\* C37: is_available is what the constructor made it (False exactly for a
\* vendor that needs an API key when none was supplied) whatever operations,
\* failures and refusals have happened since, and a provider without a key
\* that is invoked directly returns nothing and sends no request
C37_AvailabilityFixed ==
    /\ \E keys \in RateKeyConfigs :
            \A p \in ProviderNames :
                /\ prov[p].api_key = (p \in keys)
                /\ prov[p].is_available = (p = "yahoo" \/ p \in keys)
    /\ \A d \in DOMAIN direct :
            (direct[d].pc # "idle" /\ ~prov[direct[d].p].is_available) =>
                /\ direct[d].pc = "done"
                /\ ~direct[d].sent
                /\ direct[d].result = Absent

\* Finnhub, without a key, has been invoked directly and has returned nothing
\* without a request, after Alpha Vantage had a failed request and used up
\* its window
C37_Witness ==
    \E d \in DOMAIN direct :
        /\ direct[d].p = "finnhub" /\ direct[d].pc = "done" /\ ~direct[d].sent
        /\ ~prov["finnhub"].is_available
        /\ prov["alphavantage"].last_error = "error"
        /\ prov["alphavantage"].request_count = rate_limit("alphavantage")
        /\ prov["alphavantage"].is_available

-----------------------------------------------------------------------------
(* vendor-side failures, over SpecBatch *)

\* the failure of a vendor request
Failure == [kind |-> "error", data |-> Absent]

\* the provider whose answer the suspended operation of c waits for
Pending(c) == calls[c].order[calls[c].idx]

\* C38: a provider operation whose vendor request fails (HTTP error status,
\* exception while the payload is read) returns nothing to the Manager
\* without raising and records the error in last_error; for get_quote,
\* get_info, get_historical and search, of Yahoo (asked within the run that
\* starts the operation, unless the cache serves it) and of the providers
\* asked over HTTP (whose answer resumes the operation)
C38_FailureRecorded ==
    [][ /\ \A c \in Callers :
            ( \/ \E query \in Queries : Search(c, query, Failure)
              \/ \E raw \in RateTickers : GetInfo(c, raw, Failure)
              \/ \E raw \in RateTickers, period \in Periods, interval \in Intervals :
                    GetHistorical(c, raw, period, interval, Failure) ) =>
                (\/ calls'[c].hit
                 \/ /\ calls'[c].called[1] = "yahoo"
                    /\ "yahoo" \notin Range(calls'[c].warned)
                    /\ calls'[c].pc = "done" => calls'[c].result = Absent
                    /\ prov'["yahoo"].last_error = "error")
        /\ \A c \in DOMAIN calls :
            ( /\ calls[c].pc = "net"
              /\ \E y \in BatchResponses(calls[c].op) :
                    NetReturn(c, Failure, y) \/ SearchReturn(c, Failure, y) ) =>
                /\ Pending(c) \notin Range(calls'[c].warned)
                /\ calls'[c].pc = "done" => calls'[c].result = Absent
                /\ prov'[Pending(c)].last_error = "error"
      ]_vars

-----------------------------------------------------------------------------
(* collections over a price history that already holds rows, over SpecKeep: *)
(* any of the tables of SpecStore, two held tickers, the clock on the third *)
(* day, passes called by hand and the first pass of the scheduler's task    *)

KeepRows ==
    << [ticker |-> <<"a">>, quantity |-> 5],
       [ticker |-> <<"A", "B">>, quantity |-> 3] >>

InitKeep ==
    /\ now = StoreStart
    /\ InitManager({})
    /\ \E table \in StoredTables : InitCollectorFull(KeepRows, table)

NextKeep ==
    \/ \E m \in ManualCallers, E \in Envs(HeldSet) : ManualCollect(m, E)
    \/ \E m \in ManualCallers, ticker \in ColTickers :
            \E E \in Envs({ticker}) : ManualSingle(m, ticker, E)
    \/ Start
    \/ \E k \in 1..Len(tasks), E \in Envs(HeldSet) : TaskBegin(k, E)

SpecKeep == InitKeep /\ [][NextKeep]_vars

\* C39: no collector operation deletes a PriceHistory row, so the (ticker,
\* date) keys present never get fewer; and whatever a step does to the row
\* of a key, the row keeps its ticker, its date and its open, its high does
\* not get lower and its low does not get higher
C39_HistoryOnlyGrows ==
    [][ \A r \in price_history :
            \E q \in price_history' :
                /\ q.ticker = r.ticker /\ q.date = r.date
                /\ q.open = r.open
                /\ q.high >= r.high
                /\ q.low <= r.low
      ]_vars

\* _save_price has run for a ticker whose row of today was already in the
\* table, with a quote whose high is above the row's, and the table still
\* holds the rows of both tickers
C39_Witness ==
    \E r \in price_history :
        /\ r.date = Today(now)
        /\ DictGet(save_log, <<r.ticker, r.date>>) # Absent
        /\ save_log[<<r.ticker, r.date>>].price # r.close
        /\ \E q \in price_history : q.ticker # r.ticker

-----------------------------------------------------------------------------
(* get_status() after a burst, over SpecStatus: the clients of SpecBurst,   *)
(* and the clock moving once past the end of the window                     *)

NextStatus ==
    \/ \E d \in BurstCallers, raw \in RateTickers, y \in BurstResponses :
            direct[d].pc = "idle" /\ ProviderCall(d, "alphavantage", "quote", raw, y)
    \/ \E d \in BurstCallers, resp \in BurstResponses : ProviderReturn(d, resp)
    \/ Tick(WindowStep, WindowStep)

SpecStatus == InitBurst /\ [][NextStatus]_vars

\* C40: the requests_remaining of get_status() is never negative: for a
\* provider with a per-minute cap it is what the cap leaves beyond the
\* request_count the provider holds at that moment, and 0 when the count
\* has reached or passed the cap; it is None exactly for the providers
\* without a per-minute cap.  The status is computed from the counters as
\* they are, a window that is over included: reset_time is last_reset plus
\* one minute even when that lies in the past
C40_RemainingNeverNegative ==
    \A p \in ProviderNames :
        LET st == GetStatus(p, prov[p])
            n  == prov[p].request_count
        IN  /\ (rate_limit(p) = 0) <=> (st.requests_remaining = Absent)
            /\ rate_limit(p) # 0 =>
                /\ Len(st.requests_remaining) = 1
                /\ st.requests_remaining[1] >= 0
                /\ n <= rate_limit(p) => st.requests_remaining[1] + n = rate_limit(p)
                /\ n >= rate_limit(p) => st.requests_remaining[1] = 0
                /\ st.reset_time = Some(prov[p].last_reset + SecondsPerMinute)

\* more requests than the cap have been counted in one window, and the
\* window is over without a call having reset it
C40_Witness ==
    \E p \in ProviderNames :
        /\ rate_limit(p) # 0
        /\ prov[p].request_count > rate_limit(p)
        /\ now - prov[p].last_reset > SecondsPerMinute
        /\ GetStatus(p, prov[p]).requests_remaining = Some(0)

====
